---- MODULE Spec2Model ----
(***************************************************************************)
(* Ad-Platform-Data-Fetcher: the Request Executor (fetchWithRetry) of      *)
(* src/src/fetcher.ts with its error classification, its retry loop and    *)
(* the Wait-Time Resolver (getWaitTimeFromHeaders).                        *)
(*                                                                         *)
(* A JavaScript value that may be undefined or null is modelled as a set   *)
(* with at most one element: None is undefined/null, Some(v) is v.         *)
(***************************************************************************)
EXTENDS Integers, Sequences, FiniteSets, TLC

\* ------------------------------------------------------------------------
\* Optional values (undefined / null) and the ?? operator
\* ------------------------------------------------------------------------
None == {}

Some(v) == {v}

Get(o) == CHOOSE v \in o : TRUE

OrElse(o, d) == IF o = None THEN d ELSE Get(o)

\* ------------------------------------------------------------------------
\* Program constants
\* ------------------------------------------------------------------------
MAX_RETRIES == 3

RATE_LIMIT_ERROR_CODES == {4, 17, 613, 80000, 80003, 80004, 80014}

AUTH_ERROR_CODES == {190, 10, 200}

DEFAULT_RATE_LIMIT_WAIT_MS == 5 * 60 * 1000

REPORT_POLL_INTERVAL_MS == 5000

REPORT_TIMEOUT_MS == 5 * 60 * 1000

BATCH_SIZE == 50

\* ------------------------------------------------------------------------
\* Bounds of the model
\* ------------------------------------------------------------------------
\* longest list of keys of a parsed usage header
MaxKeys == 2

\* most polls of one waitForReport
MaxPolls == 3

\* most pages of one report
MaxPages == 2

\* most distinct ads handed to the Status Enricher on its own
MaxAds == 120

\* longest array of usage entries under one key
MaxEntries == 2

\* largest month number and largest day number of a date on the command line
MaxMonth == 13

MaxDay == 32

\* longest actions, action_values or purchase_roas list of a row
MaxActions == 2

\* most rows of a report whose spend is summed on its own
MaxRows == 2

\* ------------------------------------------------------------------------
\* Inputs: what the upstream server and the network can produce
\* ------------------------------------------------------------------------
\* HTTP statuses: success range, client error, server error
Statuses == {200, 400, 500}

\* body.error.code: absent, a generic code, rate-limit codes, auth codes
ErrorCodes == {None, Some(1), Some(4), Some(613), Some(190), Some(10)}

\* error_subcode and message of an envelope: both absent or both present
ErrorDetails ==
  { [error_subcode |-> None, message |-> None],
    [error_subcode |-> Some(1504022),
     message |-> Some("Service temporarily unavailable: ECONNRESET")] }

\* FacebookErrorBody.error
ErrorEnvelopes ==
  { [code |-> c, error_subcode |-> d.error_subcode, message |-> d.message] :
      c \in ErrorCodes, d \in ErrorDetails }

\* The outcome of response.json(): it throws ("fail"), yields JSON null
\* ("null"), or yields an object with or without an error member.
Bodies ==
  { [parse |-> "fail", error |-> None],
    [parse |-> "null", error |-> None],
    [parse |-> "object", error |-> None] }
  \cup { [parse |-> "object", error |-> Some(e)] : e \in ErrorEnvelopes }

\* estimated_time_to_regain_access, in minutes, as the header can carry it
Minutes == {0, 10}

\* one usage entry: the field is absent or carries a number of minutes
UsageEntries ==
  { [estimated_time_to_regain_access |-> m] :
      m \in {None} \cup { Some(n) : n \in Minutes } }

SeqsUpTo(S, n) == UNION { [1..k -> S] : k \in 0..n }

\* the value under one key of the parsed header: an array of entries or not
UsageValues ==
  { [isArray |-> FALSE, items |-> << >>] }
  \cup { [isArray |-> TRUE, items |-> s] : s \in SeqsUpTo(UsageEntries, MaxEntries) }

\* one member of the parsed header, in Object.keys order
UsageMembers == { [name |-> n, value |-> v] : n \in {"123", ""}, v \in UsageValues }

AbsentHeader == [kind |-> "absent", members |-> << >>]

\* x-business-use-case-usage: absent, the empty string, text that is not
\* JSON, the JSON text null, or a JSON object
UsageHeaders ==
  { [kind |-> k, members |-> << >>] : k \in {"absent", "empty", "malformed", "null"} }
  \cup { [kind |-> "object", members |-> s] : s \in SeqsUpTo(UsageMembers, MaxKeys) }

UsageObject(minutes) ==
  [kind |-> "object",
   members |-> << [name |-> "123",
                   value |-> [isArray |-> TRUE,
                              items |-> << [estimated_time_to_regain_access |-> minutes] >>]] >>]

\* the usage headers the executor is run against
HeaderSamples == { AbsentHeader, UsageObject(Some(10)) }

\* a Response: status, json() outcome, usage header
Responses ==
  { [status |-> s, body |-> b, buc |-> h] :
      s \in Statuses, b \in Bodies, h \in HeaderSamples }

\* messages of the exceptions fetch() rejects with
NetworkMessages == {"fetch failed", "read ECONNRESET", "socket hang up"}

\* random jitter in ms, Math.random() * 1000 lies in [0, 1000)
Jitters == {0, 999}

\* ------------------------------------------------------------------------
\* Error objects (errors.ts)
\* ------------------------------------------------------------------------
MakeError(name, message, code, subcode, retryAfterMs) ==
  [name |-> name, message |-> message, code |-> code, subcode |-> subcode,
   retryAfterMs |-> retryAfterMs]

FacebookApiError(message, code, subcode) ==
  MakeError("FacebookApiError", message, code, subcode, None)

RateLimitError(message, code, subcode, retryAfterMs) ==
  MakeError("RateLimitError", message, code, subcode, Some(retryAfterMs))

AuthenticationError(message, code, subcode) ==
  MakeError("AuthenticationError", message, code, subcode, None)

\* new Error(message), also the exceptions of the runtime (TypeError)
PlainError(name, message) == MakeError(name, message, None, None, None)

\* err instanceof FacebookApiError: the class and its two subclasses
InstanceOfFacebookApiError(err) ==
  err.name \in {"FacebookApiError", "RateLimitError", "AuthenticationError"}

InstanceOfAuthenticationError(err) == err.name = "AuthenticationError"

\* String.prototype.includes on the messages of the model
MessageIncludes(message, needle) ==
  <<message, needle>> \in
    { <<"fetch failed", "fetch failed">>,
      <<"read ECONNRESET", "ECONNRESET">>,
      <<"Service temporarily unavailable: ECONNRESET", "ECONNRESET">> }

\* ------------------------------------------------------------------------
\* State
\* ------------------------------------------------------------------------
VARIABLES
  pc,         \* position of the fetchWithRetry call: idle, fetch, sleep, returned, thrown
  attempt,    \* loop counter of fetchWithRetry
  lastError,  \* lastError of fetchWithRetry: None is null
  requests,   \* number of fetch() calls issued by the current call
  waits,      \* the sleep() calls of the current call, in order
  log,        \* what each fetch() of the current call produced, in order
  returned,   \* the body the call returned, if it returned
  thrown,     \* the error the call threw, if it threw
  bucHeader,  \* the usage header handed to getWaitTimeFromHeaders
  waitMs,     \* what getWaitTimeFromHeaders returned for bucHeader
  rpc,        \* position of the run (main of index.ts and what it calls)
  now,        \* Date.now(), in milliseconds since the run began
  sent,       \* number of HTTP requests issued so far, per kind of request
  runError,   \* the error that ended the run, if one did
  created,    \* the body createInsightsReport received for its POST
  reportRunId, \* what createInsightsReport returned
  startTime,  \* startTime of waitForReport
  polled,     \* the status bodies the polls of waitForReport received, in order
  asked,      \* the URLs waitForReport and fetchReportResults called fetchWithRetry with, in order
  url,        \* url of fetchReportResults: None is null
  pages,      \* the URLs fetchReportResults fetched with the bodies received, in order
  allRows,    \* allRows of fetchReportResults
  looked,     \* the ids the status lookup of fetchAdData asked for, and the body received
  output,     \* the ApiOutput: of fetchAdData, then of main
  adIds,      \* adIds handed to fetchAdStatuses of statusFetcher.ts
  uniqueIds,  \* uniqueIds of fetchAdStatuses of statusFetcher.ts
  batchAt,    \* i of the batch loop
  batches,    \* the batches looked up so far, in order: ids, what fetch() produced, and the body if one came
  statusMap,  \* statusMap of fetchAdStatuses of statusFetcher.ts
  saved,      \* what saveOutput wrote
  date,       \* the date argument of the command line, as its characters
  dateCheck,  \* validateDate(date): pending, valid, or the error it threw
  limitArg,   \* the limit argument of buildInsightsUrl: None when left out
  insightsUrl \* what buildInsightsUrl returned: path and query parameters

execVars == <<pc, attempt, lastError, requests, waits, log, returned, thrown>>

waitVars == <<bucHeader, waitMs>>

flowVars == <<created, reportRunId, startTime, polled, asked>>

walkVars == <<url, pages, allRows>>

dataVars == <<looked, output>>

enrichVars == <<adIds, uniqueIds, batchAt, batches, statusMap>>

inputVars == <<date, dateCheck, limitArg, insightsUrl>>

runVars ==
  <<rpc, now, sent, runError, created, reportRunId, startTime, polled, asked, url,
    pages,
    allRows, looked, output, adIds, uniqueIds, batchAt, batches, statusMap, saved>>

vars ==
  <<pc, attempt, lastError, requests, waits, log, returned, thrown, bucHeader, waitMs,
    rpc, now, sent, runError, created, reportRunId, startTime, polled, asked, url,
    pages,
    allRows, looked, output, adIds, uniqueIds, batchAt, batches, statusMap, saved,
    date, dateCheck, limitArg, insightsUrl>>

\* ------------------------------------------------------------------------
\* Pure helpers of fetcher.ts
\* ------------------------------------------------------------------------
\* variant: the base is scaled by the jitter
backoffWithJitterScaled(a, jitter) ==
  LET base == (2 ^ a) * 1000
  IN  (base * jitter) \div 1000

\* base of 2^attempt seconds plus the jitter drawn from Math.random()
backoffWithJitter(a, jitter) ==
  LET base == (2 ^ a) * 1000
  IN  base + jitter

\* variant: an envelope counts only when it carries a code
HasErrorWithCode(body) == body.error # None /\ Get(body.error).code # None

\* body.error is truthy
HasError(body) == body.error # None

\* !!body.error?.code: the code is present and not 0
TruthyCode(body) == HasError(body) /\ Get(body.error).code \notin {None, Some(0)}

\* variant: only the app-level and account-level codes
isRateLimitErrorAppOnly(body) ==
  TruthyCode(body) /\ Get(Get(body.error).code) \in {4, 17}

isRateLimitError(body) ==
  TruthyCode(body) /\ Get(Get(body.error).code) \in RATE_LIMIT_ERROR_CODES

\* variant: only the expired-token code
isAuthErrorTokenOnly(body) ==
  TruthyCode(body) /\ Get(Get(body.error).code) = 190

isAuthError(body) ==
  TruthyCode(body) /\ Get(Get(body.error).code) \in AUTH_ERROR_CODES

\* response.ok
ResponseOk(status) == status >= 200 /\ status <= 299

getWaitTimeFromHeaders(header) ==
  IF header.kind \in {"absent", "empty"} THEN DEFAULT_RATE_LIMIT_WAIT_MS
  ELSE IF header.kind \in {"malformed", "null"} THEN DEFAULT_RATE_LIMIT_WAIT_MS
  ELSE IF Len(header.members) = 0 THEN DEFAULT_RATE_LIMIT_WAIT_MS
  ELSE LET first == header.members[1]
       IN  IF first.name # "" /\ first.value.isArray
           THEN IF Len(first.value.items) = 0 THEN DEFAULT_RATE_LIMIT_WAIT_MS
                ELSE LET entry == first.value.items[1]
                         minutes == entry.estimated_time_to_regain_access
                     IN  IF minutes \notin {None, Some(0)}
                         THEN Get(minutes) * 60 * 1000
                         ELSE DEFAULT_RATE_LIMIT_WAIT_MS
           ELSE DEFAULT_RATE_LIMIT_WAIT_MS

\* ------------------------------------------------------------------------
\* One iteration of the retry loop: what the try block and the catch block
\* of fetchWithRetry do.  The result says how the iteration ends:
\*   op = "return"   : return body
\*   op = "throw"    : throw err
\*   op = "continue" : sleep(sleep), then continue; setLast says whether
\*                     lastError was assigned err on the way
\* ------------------------------------------------------------------------
Return(body) ==
  [op |-> "return", body |-> Some(body), err |-> None, setLast |-> FALSE,
   sleep |-> 0, why |-> ""]

Throw(err, setLast) ==
  [op |-> "throw", body |-> None, err |-> Some(err), setLast |-> setLast,
   sleep |-> 0, why |-> ""]

Continue(err, ms, why) ==
  [op |-> "continue", body |-> None, err |-> err, setLast |-> err # None,
   sleep |-> ms, why |-> why]

\* variant: a body that is not JSON is retried with backoff for every status
JsonParseFailedRetried(response, a, jitter) ==
  Continue(
    Some(PlainError("Error",
           "Server error " \o ToString(response.status) \o " (non-JSON body)")),
    backoffWithJitter(a, jitter), "backoff")

\* the catch around response.json()
JsonParseFailed(response, a, jitter) ==
  IF response.status >= 500
  THEN Continue(
         Some(PlainError("Error",
                "Server error " \o ToString(response.status) \o " (non-JSON body)")),
         backoffWithJitter(a, jitter), "backoff")
  ELSE Throw(FacebookApiError(
               "HTTP " \o ToString(response.status) \o ": non-JSON response",
               Some(response.status), None), FALSE)

\* variant: a status >= 500 with an error envelope is retried with backoff
ServerErrorWithBodyRetried(response, a, jitter) ==
  LET error == Get(response.body.error)
  IN  Continue(
        Some(PlainError("Error",
               OrElse(error.message, "Server error " \o ToString(response.status)))),
        backoffWithJitter(a, jitter), "backoff")

\* the branch for a status >= 500 whose body carries an error envelope
ServerErrorWithBody(response, a, jitter) ==
  LET error == Get(response.body.error)
  IN  Throw(FacebookApiError(
              OrElse(error.message, "Server error " \o ToString(response.status)),
              error.code, error.error_subcode), FALSE)

\* the try block once fetch() has resolved with a response
TryBlock(response, a, jitter) ==
  LET body == response.body
      error == Get(body.error)
  IN  IF body.parse = "fail" THEN JsonParseFailed(response, a, jitter)
      ELSE IF body.parse = "null"
      THEN Throw(PlainError("TypeError",
                   "Cannot read properties of null (reading 'error')"), FALSE)
      ELSE IF HasError(body) /\ isAuthError(body)
      THEN Throw(AuthenticationError(OrElse(error.message, "Authentication failed"),
                   error.code, error.error_subcode), FALSE)
      ELSE IF HasError(body) /\ isRateLimitError(body)
      THEN Continue(None, getWaitTimeFromHeaders(response.buc), "rate-limit")
      ELSE IF response.status >= 500 /\ HasError(body)
      THEN ServerErrorWithBody(response, a, jitter)
      ELSE IF HasError(body)
      THEN Throw(FacebookApiError(OrElse(error.message, "Unknown Facebook API error"),
                   error.code, error.error_subcode), FALSE)
      ELSE IF ~ResponseOk(response.status)
      THEN Throw(FacebookApiError(
                   "HTTP error " \o ToString(response.status) \o ": {}",
                   Some(response.status), None), FALSE)
      ELSE Return(body)

\* the network errors the catch block retries
IsNetworkError(err) ==
  \/ MessageIncludes(err.message, "fetch failed")
  \/ MessageIncludes(err.message, "ECONNRESET")

\* variant: every caught error is retried with backoff
CatchBlockRetryAll(err, a, jitter) ==
  Continue(Some(err), backoffWithJitter(a, jitter), "backoff")

\* variant: no instanceof test, the message alone decides
CatchBlockNoInstanceCheck(err, a, jitter) ==
  IF IsNetworkError(err)
  THEN Continue(Some(err), backoffWithJitter(a, jitter), "backoff")
  ELSE Throw(err, TRUE)

\* the catch block
CatchBlock(err, a, jitter) ==
  IF InstanceOfAuthenticationError(err) \/ InstanceOfFacebookApiError(err)
  THEN Throw(err, FALSE)
  ELSE IF IsNetworkError(err)
       THEN Continue(Some(err), backoffWithJitter(a, jitter), "backoff")
       ELSE Throw(err, TRUE)

\* variant: the polls the run has sent count against the attempts of a call
LoopConditionShared(a) == a + sent.poll <= MAX_RETRIES

\* variant: off by one
LoopConditionOffByOne(a) == a < MAX_RETRIES

\* attempt <= MAX_RETRIES
LoopCondition(a) == a <= MAX_RETRIES

\* the throw after the loop
RetriesExhausted(last) ==
  FacebookApiError(
    "Failed after " \o ToString(MAX_RETRIES) \o " retries. Last error: "
      \o (IF last = None THEN "undefined" ELSE Get(last).message),
    None, None)

\* ------------------------------------------------------------------------
\* What one fetch() produced: a response, or an exception with a message
\* ------------------------------------------------------------------------
NoResponse == [status |-> 0, body |-> [parse |-> "fail", error |-> None], buc |-> AbsentHeader]

Responded(response) == [threw |-> FALSE, message |-> "", response |-> response]

Rejected(message) == [threw |-> TRUE, message |-> message, response |-> NoResponse]

\* ------------------------------------------------------------------------
\* The run before main has done anything
\* ------------------------------------------------------------------------
NoneSent == [submit |-> 0, poll |-> 0, results |-> 0, lookup |-> 0, batch |-> 0]

\* parseArgs has accepted the date 2025-01-15; no URL was built yet
InputChecked ==
  /\ date = <<"2", "0", "2", "5", "-", "0", "1", "-", "1", "5">>
  /\ dateCheck = "valid"
  /\ limitArg = None
  /\ insightsUrl = None

InitRun ==
  /\ rpc = "create"
  /\ now = 0
  /\ sent = NoneSent
  /\ runError = None
  /\ created = None
  /\ reportRunId = None
  /\ startTime = None
  /\ polled = << >>
  /\ asked = << >>
  /\ url = None
  /\ pages = << >>
  /\ allRows = << >>
  /\ looked = None
  /\ output = None
  /\ adIds = << >>
  /\ uniqueIds = << >>
  /\ batchAt = 0
  /\ batches = << >>
  /\ statusMap = << >>
  /\ saved = None

\* ------------------------------------------------------------------------
\* Initial state: no call of fetchWithRetry is running
\* ------------------------------------------------------------------------
Init ==
  /\ pc = "idle"
  /\ attempt = 1
  /\ lastError = None
  /\ requests = 0
  /\ waits = << >>
  /\ log = << >>
  /\ returned = None
  /\ thrown = None
  /\ bucHeader = AbsentHeader
  /\ waitMs = None
  /\ InitRun
  /\ InputChecked

\* ------------------------------------------------------------------------
\* Actions of fetchWithRetry
\* ------------------------------------------------------------------------
\* fetchWithRetry is called: lastError = null, attempt = 1, loop test
Call ==
  /\ pc \in {"idle", "returned", "thrown"}
  /\ attempt' = 1
  /\ lastError' = None
  /\ requests' = 0
  /\ waits' = << >>
  /\ log' = << >>
  /\ returned' = None
  /\ IF LoopCondition(1)
     THEN pc' = "fetch" /\ thrown' = None
     ELSE pc' = "thrown" /\ thrown' = Some(RetriesExhausted(None))
  /\ UNCHANGED <<waitVars, runVars, inputVars>>

\* variant: on the last attempt the loop is left without the sleep
FinishNoLastSleep(o, reply) ==
  /\ requests' = requests + 1
  /\ log' = Append(log, reply)
  /\ lastError' = IF o.setLast THEN o.err ELSE lastError
  /\ pc' = CASE o.op = "return" -> "returned"
             [] o.op = "throw" -> "thrown"
             [] attempt = MAX_RETRIES -> "thrown"
             [] OTHER -> "sleep"
  /\ returned' = IF o.op = "return" THEN o.body ELSE returned
  /\ thrown' = CASE o.op = "throw" -> o.err
                 [] o.op = "continue" /\ attempt = MAX_RETRIES ->
                      Some(RetriesExhausted(lastError'))
                 [] OTHER -> thrown
  /\ waits' = IF o.op = "continue" /\ attempt < MAX_RETRIES
              THEN Append(waits, [ms |-> o.sleep, why |-> o.why])
              ELSE waits
  /\ UNCHANGED <<attempt, bucHeader, waitMs, runVars, inputVars>>

\* the end of one loop iteration, for the fetch() result reply
Finish(o, reply) ==
  /\ requests' = requests + 1
  /\ log' = Append(log, reply)
  /\ lastError' = IF o.setLast THEN o.err ELSE lastError
  /\ pc' = CASE o.op = "return" -> "returned"
             [] o.op = "throw" -> "thrown"
             [] OTHER -> "sleep"
  /\ returned' = IF o.op = "return" THEN o.body ELSE returned
  /\ thrown' = IF o.op = "throw" THEN o.err ELSE thrown
  /\ waits' = IF o.op = "continue"
              THEN Append(waits, [ms |-> o.sleep, why |-> o.why])
              ELSE waits
  /\ UNCHANGED <<attempt, bucHeader, waitMs, runVars, inputVars>>

\* fetch() resolves with a response; the try block runs, and what it throws
\* is caught by the catch block of the same iteration
Respond(response, jitter) ==
  /\ pc = "fetch"
  /\ LET t == TryBlock(response, attempt, jitter)
         o == IF t.op = "throw" THEN CatchBlock(Get(t.err), attempt, jitter) ELSE t
     IN  Finish(o, Responded(response))

\* fetch() rejects before any response is received
RequestFails(message, jitter) ==
  /\ pc = "fetch"
  /\ Finish(CatchBlock(PlainError("Error", message), attempt, jitter), Rejected(message))

\* variant: continue without attempt++
WakeUpSameAttempt ==
  /\ pc = "sleep"
  /\ attempt' = attempt
  /\ IF LoopCondition(attempt)
     THEN pc' = "fetch" /\ thrown' = thrown
     ELSE pc' = "thrown" /\ thrown' = Some(RetriesExhausted(lastError))
  /\ UNCHANGED <<lastError, requests, waits, log, returned, bucHeader, waitMs, runVars, inputVars>>

\* sleep() is over: continue, attempt++, loop test; past the loop, throw
WakeUp ==
  /\ pc = "sleep"
  /\ attempt' = attempt + 1
  /\ IF LoopCondition(attempt + 1)
     THEN pc' = "fetch" /\ thrown' = thrown
     ELSE pc' = "thrown" /\ thrown' = Some(RetriesExhausted(lastError))
  /\ UNCHANGED <<lastError, requests, waits, log, returned, bucHeader, waitMs, runVars, inputVars>>

Next ==
  \/ Call
  \/ \E response \in Responses, jitter \in Jitters : Respond(response, jitter)
  \/ \E message \in NetworkMessages, jitter \in Jitters : RequestFails(message, jitter)
  \/ WakeUp

Spec == Init /\ [][Next]_vars

\* fetch() settles and the timer of sleep() fires: a call that has begun is
\* not left waiting for ever
Settle ==
  \/ \E response \in Responses, jitter \in Jitters : Respond(response, jitter)
  \/ \E message \in NetworkMessages, jitter \in Jitters : RequestFails(message, jitter)
  \/ WakeUp

SpecFair == Spec /\ WF_vars(Settle)

\* ------------------------------------------------------------------------
\* The Wait-Time Resolver on its own: any usage header, resolved once
\* ------------------------------------------------------------------------
Resolve(header) ==
  /\ bucHeader' = header
  /\ waitMs' = Some(getWaitTimeFromHeaders(header))
  /\ UNCHANGED <<execVars, runVars, inputVars>>

NextWait == \E header \in UsageHeaders : Resolve(header)

SpecWait == Init /\ [][NextWait]_vars

\* ------------------------------------------------------------------------
\* One whole call of fetchWithRetry, for the replies fetch() gives it in
\* order: the loop of the executor run to its end
\* ------------------------------------------------------------------------
\* one loop iteration: the try block, and the catch block for what it throws
Iteration(reply, a, jitter) ==
  IF reply.threw
  THEN CatchBlock(PlainError("Error", reply.message), a, jitter)
  ELSE LET t == TryBlock(reply.response, a, jitter)
       IN  IF t.op = "throw" THEN CatchBlock(Get(t.err), a, jitter) ELSE t

\* how a call ended: op is return or throw, or starved when the replies ran out
Ended(op, body, err, n, slept) ==
  [op |-> op, body |-> body, err |-> err, requests |-> n, slept |-> slept]

RECURSIVE RetryLoop(_, _, _, _, _)
RetryLoop(replies, a, last, n, slept) ==
  IF ~LoopCondition(a) THEN Ended("throw", None, Some(RetriesExhausted(last)), n, slept)
  ELSE IF a > Len(replies) THEN Ended("starved", None, None, n, slept)
  ELSE LET o == Iteration(replies[a], a, 0)
       IN  CASE o.op = "return" -> Ended("return", o.body, None, n + 1, slept)
             [] o.op = "throw" -> Ended("throw", None, o.err, n + 1, slept)
             [] OTHER ->
                  RetryLoop(replies, a + 1, IF o.setLast THEN o.err ELSE last,
                            n + 1, slept + o.sleep)

fetchWithRetry(replies) == RetryLoop(replies, 1, None, 0, 0)

\* ------------------------------------------------------------------------
\* Replies of the Graph API to the requests of a run
\* ------------------------------------------------------------------------
\* status 200 and a JSON object without error member
OkReply(payload) ==
  Responded([status |-> 200,
             body |-> [parse |-> "object", error |-> None, payload |-> payload],
             buc |-> AbsentHeader])

\* an error envelope with the given code and no usage header
ErrorReply(code) ==
  Responded([status |-> 400,
             body |-> [parse |-> "object",
                       error |-> Some([code |-> Some(code), error_subcode |-> None,
                                       message |-> None])],
             buc |-> AbsentHeader])

RateLimited == ErrorReply(17)

TokenExpired == ErrorReply(190)

ConnectionLost == Rejected("fetch failed")

\* the replies a call can consume: the retried ones, then a body or a fatal
\* error, or rate limits until the retries are exhausted
Scripts(retried, payloads) ==
  { r \o <<OkReply(p)>> : r \in retried, p \in payloads }
    \cup { <<TokenExpired>>, <<RateLimited, RateLimited, RateLimited>> }

\* the call ended with the replies of the script: it took them in order, as
\* many as it issued requests
Consumed(r, replies) == r.op # "starved" /\ r.requests <= Len(replies)

Payload(r) == Get(r.body).payload

\* a request counter of the run, advanced by the requests of one call
Count(kind, r) == [sent EXCEPT ![kind] = @ + r.requests]

\* variant: the error is noted and the run goes on with what it has
AbortSwallowed(err) == rpc' = "lookup" /\ runError' = err

\* an error leaves fetchAdData and main: the catch of main ends the run
Abort(err) == rpc' = "failed" /\ runError' = err

\* ------------------------------------------------------------------------
\* createInsightsReport
\* ------------------------------------------------------------------------
\* ReportRunResponse: report_run_id present, empty or missing
ReportRunResponses ==
  { [report_run_id |-> Some("120330")], [report_run_id |-> Some("120331")],
    [report_run_id |-> Some("")],
    [report_run_id |-> None] }

CreateScripts == Scripts({ << >>, <<RateLimited>> }, ReportRunResponses)

\* variant: only a missing member counts
NoReportRunIdMember(response) == response.report_run_id = None

\* !response.report_run_id
NoReportRunId(response) ==
  response.report_run_id = None \/ response.report_run_id = Some("")

createInsightsReport(replies) ==
  /\ rpc = "create"
  /\ LET r == fetchWithRetry(replies)
     IN  /\ Consumed(r, replies)
         /\ sent' = Count("submit", r)
         /\ now' = now + r.slept
         /\ created' = IF r.op = "throw" THEN created ELSE Some(Payload(r))
         /\ IF r.op = "throw"
            THEN Abort(r.err) /\ UNCHANGED <<reportRunId, startTime>>
            ELSE IF NoReportRunId(Payload(r))
            THEN /\ Abort(Some(FacebookApiError(
                          "POST /insights did not return a report_run_id", None, None)))
                 /\ UNCHANGED <<reportRunId, startTime>>
            ELSE /\ reportRunId' = Payload(r).report_run_id
                 /\ startTime' = Some(now + r.slept)
                 /\ rpc' = "poll"
                 /\ runError' = runError
  /\ UNCHANGED <<inputVars, execVars, waitVars, polled, asked, walkVars, dataVars, enrichVars,
                 saved>>

\* ------------------------------------------------------------------------
\* waitForReport
\* ------------------------------------------------------------------------
\* ReportStatusResponse
ReportStatusResponses ==
  { [async_status |-> "Job Started", async_percent_completion |-> 0],
    [async_status |-> "Job Running", async_percent_completion |-> 50],
    [async_status |-> "Job Completed", async_percent_completion |-> 100],
    [async_status |-> "Job Failed", async_percent_completion |-> 50],
    [async_status |-> "Job Skipped", async_percent_completion |-> 0] }

PollScripts ==
  Scripts({ << >>, <<RateLimited>> }, ReportStatusResponses)
    \cup { <<ConnectionLost,
             OkReply([async_status |-> "Job Running", async_percent_completion |-> 50])>> }

\* `${BASE_URL}/${reportId}?...`: statusUrl of waitForReport
statusUrl(reportId) == [node |-> reportId, edge |-> "status"]

\* variant: completion is read off the percentage
JobCompletedByPercent(status) == status.async_percent_completion > 100

\* variant: a running job counts as completed
JobCompletedOrRunning(status) ==
  status.async_status \in {"Job Completed", "Job Running"}

\* status.async_status === "Job Completed"
JobCompleted(status) == status.async_status = "Job Completed"

\* variant: only "Job Failed" ends the wait
JobFailedOnly(status) == status.async_status = "Job Failed"

\* status.async_status === "Job Failed" || status.async_status === "Job Skipped"
JobFailed(status) == status.async_status \in {"Job Failed", "Job Skipped"}

ReportFailed(status) ==
  FacebookApiError("Insights report failed with status: " \o status.async_status,
                   None, None)

ReportTimedOut(status) ==
  FacebookApiError(
    "Insights report timed out after " \o ToString(REPORT_TIMEOUT_MS \div 1000)
      \o "s (status: " \o status.async_status \o ", "
      \o ToString(status.async_percent_completion) \o "%)",
    None, None)

\* variant: the elapsed time is never past the threshold
TimedOutNever(start, t) == FALSE

\* Date.now() - startTime > REPORT_TIMEOUT_MS
TimedOut(start, t) == t - start > REPORT_TIMEOUT_MS

\* variant: a poll that had to wait restarts the clock
StartTimeRestarted(start, t, r) == IF r.slept > 0 THEN Some(t) ELSE start

\* const startTime = Date.now() before the loop: an iteration that ends at
\* time t after the call r leaves it as it is
StartTimeKept(start, t, r) == start

\* variant: the timeout is checked before the status
PollTimeoutFirst(replies) ==
  /\ rpc = "poll"
  /\ LET r == fetchWithRetry(replies)
         t == now + r.slept
     IN  /\ Consumed(r, replies)
         /\ sent' = Count("poll", r)
         /\ asked' = Append(asked, statusUrl(Get(reportRunId)))
         /\ now' = t
         /\ IF r.op = "throw"
            THEN Abort(r.err) /\ UNCHANGED <<polled, url>>
            ELSE LET status == Payload(r)
                 IN  /\ polled' = Append(polled, status)
                     /\ IF TimedOut(Get(startTime), t)
                        THEN Abort(Some(ReportTimedOut(status))) /\ url' = url
                        ELSE IF JobCompleted(status)
                        THEN rpc' = "results" /\ url' = Some(1) /\ runError' = runError
                        ELSE IF JobFailed(status)
                        THEN Abort(Some(ReportFailed(status))) /\ url' = url
                        ELSE rpc' = "pollSleep" /\ url' = url /\ runError' = runError
         /\ startTime' = StartTimeKept(startTime, t, r)
  /\ UNCHANGED <<inputVars, execVars, waitVars, created, reportRunId, pages, allRows, dataVars,
                 enrichVars, saved>>

\* one iteration of the loop of waitForReport, up to its return, throw or sleep
Poll(replies) ==
  /\ rpc = "poll"
  /\ LET r == fetchWithRetry(replies)
         t == now + r.slept
     IN  /\ Consumed(r, replies)
         /\ sent' = Count("poll", r)
         /\ asked' = Append(asked, statusUrl(Get(reportRunId)))
         /\ now' = t
         /\ IF r.op = "throw"
            THEN Abort(r.err) /\ UNCHANGED <<polled, url>>
            ELSE LET status == Payload(r)
                 IN  /\ polled' = Append(polled, status)
                     /\ IF JobCompleted(status)
                        THEN rpc' = "results" /\ url' = Some(1) /\ runError' = runError
                        ELSE IF JobFailed(status)
                        THEN Abort(Some(ReportFailed(status))) /\ url' = url
                        ELSE IF TimedOut(Get(startTime), t)
                        THEN Abort(Some(ReportTimedOut(status))) /\ url' = url
                        ELSE rpc' = "pollSleep" /\ url' = url /\ runError' = runError
         /\ startTime' = StartTimeKept(startTime, t, r)
  /\ UNCHANGED <<inputVars, execVars, waitVars, created, reportRunId, pages, allRows, dataVars,
                 enrichVars, saved>>

\* variant: the loop goes on without sleeping
SleepSkipped ==
  /\ rpc = "pollSleep"
  /\ now' = now
  /\ rpc' = "poll"
  /\ UNCHANGED <<inputVars, execVars, waitVars, sent, runError, flowVars, walkVars, dataVars,
                 enrichVars, saved>>

\* sleep(REPORT_POLL_INTERVAL_MS) is over
SleepOver ==
  /\ rpc = "pollSleep"
  /\ now' = now + REPORT_POLL_INTERVAL_MS
  /\ rpc' = "poll"
  /\ UNCHANGED <<inputVars, execVars, waitVars, sent, runError, flowVars, walkVars, dataVars,
                 enrichVars, saved>>

\* the same, for at most MaxPolls polls of one wait
PollAgain == Len(polled) < MaxPolls /\ SleepOver

\* ------------------------------------------------------------------------
\* fetchReportResults.  A URL of the results edge is the number of its page.
\* ------------------------------------------------------------------------
\* FacebookInsightRow: the ad and the hour of the row; four ads to a
\* campaign and two to an ad set; the numeric fields are strings, written as
\* the sequence of their characters; no actions, action_values, purchase_roas
InsightRow(ad, hour) ==
  [ad_id |-> ad, hour |-> hour,
   campaign_id |-> (ad + 3) \div 4, adset_id |-> (ad + 1) \div 2,
   impressions |-> <<"1", "0">>, clicks |-> <<"1">>, spend |-> <<"0", ".", "5">>,
   actions |-> None, action_values |-> None, purchase_roas |-> None]

\* response.data: missing, empty, or rows
PageData ==
  { None, Some(<< >>), Some(<<InsightRow(1, 0)>>),
    Some(<<InsightRow(1, 1), InsightRow(2, 1)>>) }

\* FacebookInsightsResponse of the page at url u: paging.next is missing or
\* the URL of the following page
InsightsResponses(u) ==
  { [data |-> d, next |-> n] :
      d \in PageData, n \in {None} \cup (IF u < MaxPages THEN {Some(u + 1)} ELSE {}) }

PageScripts(u) ==
  Scripts({ << >> }, InsightsResponses(u))
    \cup { <<ConnectionLost, OkReply([data |-> Some(<<InsightRow(2, 0)>>), next |-> None])>> }

\* variant: the results are read from the insights edge of the ad account
resultsUrlOfAccount(reportId) == [node |-> "act_1", edge |-> "insights", page |-> 1]

\* `${BASE_URL}/${reportId}/insights?...`: the first URL of fetchReportResults
resultsUrl(reportId) == [node |-> reportId, edge |-> "insights", page |-> 1]

\* response.paging.next received from the URL u: the following page of
\* what u names
pagingNext(u) == [u EXCEPT !.page = u.page + 1]

\* variant: a page replaces what was collected
PushRowsLastPageOnly(rows, response) ==
  IF response.data # None /\ Len(Get(response.data)) > 0
  THEN Get(response.data)
  ELSE rows

\* if (response.data && response.data.length > 0) allRows.push(...response.data)
PushRows(rows, response) ==
  IF response.data # None /\ Len(Get(response.data)) > 0
  THEN rows \o Get(response.data)
  ELSE rows

\* one iteration of while (url); after the last one fetchReportResults and
\* fetchAllInsights return and fetchAdData goes on to its status lookup
FetchPage(replies) ==
  /\ rpc = "results"
  /\ url # None
  /\ LET r == fetchWithRetry(replies)
     IN  /\ Consumed(r, replies)
         /\ sent' = Count("results", r)
         /\ asked' = Append(asked, IF pages = << >>
                                   THEN resultsUrl(Get(reportRunId))
                                   ELSE pagingNext(asked[Len(asked)]))
         /\ now' = now + r.slept
         /\ IF r.op = "throw"
            THEN Abort(r.err) /\ UNCHANGED walkVars
            ELSE /\ pages' = Append(pages, [url |-> Get(url), body |-> Payload(r)])
                 /\ allRows' = PushRows(allRows, Payload(r))
                 /\ url' = Payload(r).next
                 /\ rpc' = IF Payload(r).next # None THEN "results" ELSE "lookup"
                 /\ runError' = runError
  /\ UNCHANGED <<inputVars, execVars, waitVars, created, reportRunId, startTime, polled,
                 dataVars, enrichVars, saved>>

\* ------------------------------------------------------------------------
\* fetchAdStatuses of fetcher.ts and the rest of fetchAdData
\* ------------------------------------------------------------------------
\* [...new Set(ids)]: the first occurrence of each element, in order
Unique(ids) ==
  LET indexed == [i \in 1..Len(ids) |-> <<i, ids[i]>>]
      IsFirst(p) == \A j \in 1..(p[1] - 1) : ids[j] # p[2]
      kept == SelectSeq(indexed, IsFirst)
  IN  [k \in 1..Len(kept) |-> kept[k][2]]

Elements(ids) == { ids[i] : i \in 1..Len(ids) }

AdIdsOf(rows) == [i \in 1..Len(rows) |-> rows[i].ad_id]

\* FacebookStatusMap for the requested ids, one shape per name: every ad
\* ACTIVE; odd ads PAUSED and even ads left out; odd ads without
\* effective_status and even ads ACTIVE; every ad ARCHIVED together with
\* two nodes that need not be among the requested ones, ad 1 and the ad
\* after the last requested one
StatusShapes == {"active", "partial", "bare", "stray"}

StatusResponse(shape, ids) ==
  CASE shape = "active" ->
         [id \in Elements(ids) |-> [effective_status |-> Some("ACTIVE")]]
    [] shape = "partial" ->
         [id \in { x \in Elements(ids) : x % 2 = 1 } |->
            [effective_status |-> Some("PAUSED")]]
    [] shape = "stray" ->
         [id \in Elements(ids)
                    \cup (IF ids = << >> THEN {} ELSE {1, ids[Len(ids)] + 1}) |->
            [effective_status |-> Some("ARCHIVED")]]
    [] OTHER ->
         [id \in Elements(ids) |->
            [effective_status |-> IF id % 2 = 1 THEN None ELSE Some("ACTIVE")]]

StatusResponses(ids) == { StatusResponse(shape, ids) : shape \in StatusShapes }

LookupScripts(ids) ==
  Scripts({ << >> }, { StatusResponse("partial", ids), StatusResponse("bare", ids) })

\* statusMap[id] = obj.effective_status ?? "UNKNOWN" for the entries of response
StatusesOf(response) ==
  [id \in DOMAIN response |-> OrElse(response[id].effective_status, "UNKNOWN")]

\* variant: an ad without entry counts as active
StatusOrActive(map, id) == IF id \in DOMAIN map THEN map[id] ELSE "ACTIVE"

\* map.get(id) ?? "UNKNOWN", and statusMap[id] ?? "UNKNOWN"
StatusOr(map, id) == IF id \in DOMAIN map THEN map[id] ELSE "UNKNOWN"

\* Number(string) for a decimal numeral with at most three fraction digits:
\* the value in thousandths
DigitOf(c) == CHOOSE d \in 0..9 : ToString(d) = c

RECURSIVE NaturalOf(_)
NaturalOf(digits) ==
  IF digits = << >> THEN 0
  ELSE NaturalOf(SubSeq(digits, 1, Len(digits) - 1)) * 10 + DigitOf(digits[Len(digits)])

Number(text) ==
  LET dots == { i \in 1..Len(text) : text[i] = "." }
      dot == IF dots = {} THEN Len(text) + 1 ELSE CHOOSE i \in dots : TRUE
      fraction == SubSeq(text, dot + 1, Len(text))
  IN  NaturalOf(SubSeq(text, 1, dot - 1)) * 1000
        + NaturalOf(fraction) * 10 ^ (3 - Len(fraction))

\* list.find((a) => a.action_type === type)
Find(list, type) ==
  LET hits == SelectSeq(list, LAMBDA a : a.action_type = type)
  IN  IF hits = << >> THEN None ELSE Some(hits[1])

\* list?.find((a) => a.action_type === type)?.value
FindValue(list, type) ==
  IF list = None \/ Find(Get(list), type) = None THEN None
  ELSE Some(Get(Find(Get(list), type)).value)

\* list?.[0]?.value
FirstValue(list) ==
  IF list = None \/ Get(list) = << >> THEN None ELSE Some(Get(list)[1].value)

\* a ?? b
Coalesce(a, b) == IF a # None THEN a ELSE b

\* variant: the first entry whatever its type
purchaseRoasFirstEntry(row) == FirstValue(row.purchase_roas)

purchaseRoas(row) ==
  Coalesce(FindValue(row.purchase_roas, "omni_purchase"), FirstValue(row.purchase_roas))

\* variant: falls back to the first entry as purchase_roas does
purchaseValueFirstEntry(row) ==
  Coalesce(FindValue(row.action_values, "omni_purchase"), FirstValue(row.action_values))

purchaseValue(row) ==
  Coalesce(FindValue(row.action_values, "omni_purchase"),
           FindValue(row.action_values, "purchase"))

\* variant: the entries in reverse order
actionsReversed(row) ==
  LET list == OrElse(row.actions, << >>)
  IN  [i \in 1..Len(list) |->
         [type |-> list[Len(list) + 1 - i].action_type,
          count |-> Number(list[Len(list) + 1 - i].value)]]

actions(row) ==
  LET list == OrElse(row.actions, << >>)
  IN  [i \in 1..Len(list) |->
         [type |-> list[i].action_type, count |-> Number(list[i].value)]]

\* value !== null ? Number(value) : null
NumberOrNull(value) == IF value # None THEN Some(Number(Get(value))) ELSE None

\* AdHourlyRecord
normalizeRow(row, status) ==
  [ad_id |-> row.ad_id, hour |-> row.hour, status |-> status,
   campaign_id |-> row.campaign_id, adset_id |-> row.adset_id,
   impressions |-> Number(row.impressions), clicks |-> Number(row.clicks),
   spend |-> Number(row.spend),
   purchase_roas |-> NumberOrNull(purchaseRoas(row)),
   purchase_value |-> NumberOrNull(purchaseValue(row)),
   actions |-> actions(row)]

\* the sum of a field over the records from lo to hi, added up by halves
RECURSIVE TotalBetween(_, _, _, _)
TotalBetween(records, field, lo, hi) ==
  IF lo > hi THEN 0
  ELSE IF lo = hi THEN records[lo][field]
  ELSE TotalBetween(records, field, lo, (lo + hi) \div 2)
         + TotalBetween(records, field, (lo + hi) \div 2 + 1, hi)

\* records.reduce((sum, r) => sum + r[field], 0) over the first n records
Total(records, field, n) == TotalBetween(records, field, 1, n)

\* Math.round(x * 100) / 100, x and the result in thousandths
Round2(x) == ((x + 5) \div 10) * 10

\* variant: every record counts
DistinctPerRecord(records, field) == Len(records)

Distinct(records, field) == Cardinality({ records[i][field] : i \in 1..Len(records) })

\* variant: the spend of every record is rounded before it is added
computeSummaryRoundedFirst(records) ==
  [total_impressions |-> Total(records, "impressions", Len(records)),
   total_clicks |-> Total(records, "clicks", Len(records)),
   total_spend |-> Total([i \in 1..Len(records) |-> [spend |-> Round2(records[i].spend)]],
                         "spend", Len(records)),
   unique_ads |-> Distinct(records, "ad_id"),
   unique_campaigns |-> Distinct(records, "campaign_id"),
   unique_adsets |-> Distinct(records, "adset_id")]

computeSummary(records) ==
  [total_impressions |-> Total(records, "impressions", Len(records)),
   total_clicks |-> Total(records, "clicks", Len(records)),
   total_spend |-> Round2(Total(records, "spend", Len(records))),
   unique_ads |-> Distinct(records, "ad_id"),
   unique_campaigns |-> Distinct(records, "campaign_id"),
   unique_adsets |-> Distinct(records, "adset_id")]

\* OutputFile
OutputFile(records) ==
  [metadata |-> [total_records |-> Len(records), summary |-> computeSummary(records)],
   data |-> records]

\* variant: one record per ad, that of its first row
BuildOutputOnePerAd(rows, map) ==
  LET indexed == [i \in 1..Len(rows) |-> <<i, rows[i]>>]
      IsFirst(p) == \A j \in 1..(p[1] - 1) : rows[j].ad_id # p[2].ad_id
      kept == SelectSeq(indexed, IsFirst)
  IN  OutputFile([k \in 1..Len(kept) |->
                    normalizeRow(kept[k][2], StatusOr(map, kept[k][2].ad_id))])

\* normalizedData, metadata and data of fetchAdData for the looked up statuses
BuildOutput(rows, map) ==
  OutputFile([i \in 1..Len(rows) |-> normalizeRow(rows[i], StatusOr(map, rows[i].ad_id))])

\* steps 2 to 4 of fetchAdData: one lookup for all the ads of the rows, none
\* when there is no ad, and the output built from what it returned
fetchAdStatuses(replies) ==
  /\ rpc = "lookup"
  /\ LET ids == Unique(AdIdsOf(allRows))
         r == IF ids = << >> THEN Ended("return", None, None, 0, 0)
              ELSE fetchWithRetry(replies)
     IN  /\ replies \in (IF ids = << >> THEN {<< >>} ELSE LookupScripts(ids))
         /\ Consumed(r, replies)
         /\ sent' = Count("lookup", r)
         /\ now' = now + r.slept
         /\ IF r.op = "throw"
            THEN Abort(r.err) /\ UNCHANGED dataVars
            ELSE /\ looked' = Some([ids |-> ids,
                                    body |-> IF ids = << >> THEN << >> ELSE Payload(r)])
                 /\ output' = Some(BuildOutput(allRows,
                                    IF ids = << >> THEN << >> ELSE StatusesOf(Payload(r))))
                 /\ rpc' = "enrich"
                 /\ runError' = runError
  /\ UNCHANGED <<inputVars, execVars, waitVars, flowVars, walkVars, enrichVars, saved>>

\* ------------------------------------------------------------------------
\* statusFetcher.ts: its own fetchWithRetry, run to its end for the replies
\* fetch() gives it in order
\* ------------------------------------------------------------------------
StatusRetriesExhausted(last) ==
  PlainError("Error",
    "Failed after " \o ToString(MAX_RETRIES) \o " retries. Last error: "
      \o (IF last = None THEN "undefined" ELSE Get(last).message))

\* the error of the try block for a response that is neither 429 nor 5xx:
\* none when response.json() yields the body
StatusTryError(response) ==
  IF ~ResponseOk(response.status)
  THEN Some(PlainError("Error",
              "Facebook API error " \o ToString(response.status) \o ": Bad Request"))
  ELSE IF response.body.parse = "fail"
  THEN Some(PlainError("SyntaxError", "Unexpected token < in JSON at position 0"))
  ELSE None

RECURSIVE StatusRetryLoop(_, _, _, _, _)
StatusRetryLoop(replies, a, last, n, slept) ==
  IF ~(a <= MAX_RETRIES)
  THEN Ended("throw", None, Some(StatusRetriesExhausted(last)), n, slept)
  ELSE IF a > Len(replies) THEN Ended("starved", None, None, n, slept)
  ELSE LET reply == replies[a]
           response == reply.response
           caught == IF reply.threw THEN Some(PlainError("Error", reply.message))
                     ELSE StatusTryError(response)
       IN  IF ~reply.threw /\ response.status = 429
           THEN StatusRetryLoop(replies, a + 1, last, n + 1, slept + 60000)
           ELSE IF ~reply.threw /\ response.status >= 500
           THEN StatusRetryLoop(replies, a + 1, last, n + 1, slept + (2 ^ a) * 1000)
           ELSE IF caught = None
           THEN Ended("return", Some(response.body), None, n + 1, slept)
           ELSE IF IsNetworkError(Get(caught))
           THEN StatusRetryLoop(replies, a + 1, caught, n + 1, slept + (2 ^ a) * 1000)
           ELSE Ended("throw", None, caught, n + 1, slept)

statusFetchWithRetry(replies) == StatusRetryLoop(replies, 1, None, 0, 0)

\* a response with the given status and a body that is not JSON
HttpReply(status) ==
  Responded([status |-> status, body |-> [parse |-> "fail", error |-> None],
             buc |-> AbsentHeader])

\* the replies a batch lookup can consume
BatchScripts(batch) ==
  { <<OkReply(p)>> : p \in StatusResponses(batch) }
    \cup { <<HttpReply(429), HttpReply(400)>>,
           <<HttpReply(500), ConnectionLost, HttpReply(500)>>,
           <<RateLimited>> }

\* ------------------------------------------------------------------------
\* Step 2 of main (index.ts) with fetchAdStatuses of statusFetcher.ts
\* ------------------------------------------------------------------------
\* uniqueIds.slice(i, i + BATCH_SIZE)
Slice(ids, i) ==
  SubSeq(ids, i + 1, IF i + BATCH_SIZE < Len(ids) THEN i + BATCH_SIZE ELSE Len(ids))

\* statusMap.set(k, v) for every entry of an object or every id of a batch
SetAll(map, entries) ==
  [k \in DOMAIN map \cup DOMAIN entries |->
     IF k \in DOMAIN entries THEN entries[k] ELSE map[k]]

\* record.status = statusMap.get(record.ad_id) ?? "UNKNOWN" for every record
Enriched(out, map) ==
  [out EXCEPT !.data =
     [i \in 1..Len(out.data) |->
        [out.data[i] EXCEPT !.status = StatusOr(map, out.data[i].ad_id)]]]

\* main after fetchAdData returned: fetchAdStatuses is entered when the
\* output has records, up to the first batch; otherwise straight to saving
Enrich ==
  /\ rpc = "enrich"
  /\ IF Len(Get(output).data) > 0
     THEN /\ adIds' = AdIdsOf(Get(output).data)
          /\ uniqueIds' = Unique(AdIdsOf(Get(output).data))
          /\ rpc' = "batch"
     ELSE /\ rpc' = "save"
          /\ UNCHANGED <<adIds, uniqueIds>>
  /\ batchAt' = 0
  /\ batches' = << >>
  /\ statusMap' = << >>
  /\ UNCHANGED <<inputVars, execVars, waitVars, now, sent, runError, flowVars, walkVars,
                 dataVars, saved>>

\* one iteration of the batch loop; after the last one fetchAdStatuses
\* returns and main sets the status of every record
LookupBatch(replies) ==
  /\ rpc = "batch"
  /\ LET batch == Slice(uniqueIds, batchAt)
         r == statusFetchWithRetry(replies)
         map == IF r.op = "return"
                THEN SetAll(statusMap, StatusesOf(Get(r.body).payload))
                ELSE SetAll(statusMap, [id \in Elements(batch) |-> "UNKNOWN"])
     IN  /\ replies \in BatchScripts(batch)
         /\ Consumed(r, replies)
         /\ sent' = Count("batch", r)
         /\ now' = now + r.slept
         /\ batches' = Append(batches,
                [ids |-> batch, log |-> SubSeq(replies, 1, r.requests),
                 body |-> IF r.op = "return" THEN Some(Get(r.body).payload) ELSE None])
         /\ statusMap' = map
         /\ batchAt' = batchAt + BATCH_SIZE
         /\ IF batchAt + BATCH_SIZE < Len(uniqueIds)
            THEN rpc' = "batch" /\ output' = output
            ELSE rpc' = "save" /\ output' = Some(Enriched(Get(output), map))
  /\ UNCHANGED <<inputVars, execVars, waitVars, runError, flowVars, walkVars, looked, adIds,
                 uniqueIds, saved>>

\* step 3 of main
saveOutput ==
  /\ rpc = "save"
  /\ saved' = output
  /\ rpc' = "done"
  /\ UNCHANGED <<inputVars, execVars, waitVars, now, sent, runError, flowVars, walkVars,
                 dataVars, enrichVars>>

\* ------------------------------------------------------------------------
\* The run: main of index.ts from its call of fetchAdData to saveOutput
\* ------------------------------------------------------------------------
NextRun ==
  \/ \E replies \in CreateScripts : createInsightsReport(replies)
  \/ \E replies \in PollScripts : Poll(replies)
  \/ PollAgain
  \/ \E replies \in UNION { PageScripts(u) : u \in url } : FetchPage(replies)
  \/ \E replies \in {<< >>} \cup LookupScripts(Unique(AdIdsOf(allRows))) :
       fetchAdStatuses(replies)
  \/ Enrich
  \/ \E replies \in BatchScripts(Slice(uniqueIds, batchAt)) : LookupBatch(replies)
  \/ saveOutput

SpecRun == Init /\ [][NextRun]_vars

\* ------------------------------------------------------------------------
\* A report that is never ready: the job is created at once, and the k-th
\* poll is answered at once with a non-terminal status and k - 1 percent.
\* Every step that can be taken is taken in the end.
\* ------------------------------------------------------------------------
SlowJob(k) ==
  [async_status |-> IF k = 1 THEN "Job Started" ELSE "Job Running",
   async_percent_completion |-> k - 1]

NextSlow ==
  \/ createInsightsReport(<<OkReply([report_run_id |-> Some("120330")])>>)
  \/ Poll(<<OkReply(SlowJob(Len(polled) + 1))>>)
  \/ SleepOver

SpecSlow == Init /\ [][NextSlow]_vars /\ WF_vars(NextSlow)

\* ------------------------------------------------------------------------
\* The status stage on its own: fetchAdData after fetchAllInsights returned
\* one row per ad of 1..n, with or without a second row of the first ad,
\* and main after it
\* ------------------------------------------------------------------------
RowsOfAds(n, twice) ==
  [i \in 1..n |-> InsightRow(i, 0)]
    \o (IF twice /\ n > 0 THEN <<InsightRow(1, 1)>> ELSE << >>)

InitEnrich ==
  /\ pc = "idle"
  /\ attempt = 1
  /\ lastError = None
  /\ requests = 0
  /\ waits = << >>
  /\ log = << >>
  /\ returned = None
  /\ thrown = None
  /\ bucHeader = AbsentHeader
  /\ waitMs = None
  /\ rpc = "lookup"
  /\ now = 0
  /\ sent = NoneSent
  /\ runError = None
  /\ created = None
  /\ reportRunId = None
  /\ startTime = None
  /\ polled = << >>
  /\ asked = << >>
  /\ url = None
  /\ pages = << >>
  /\ \E n \in 0..MaxAds, twice \in BOOLEAN : allRows = RowsOfAds(n, twice)
  /\ looked = None
  /\ output = None
  /\ adIds = << >>
  /\ uniqueIds = << >>
  /\ batchAt = 0
  /\ batches = << >>
  /\ statusMap = << >>
  /\ saved = None
  /\ InputChecked

NextEnrich ==
  \/ \E replies \in {<< >>} \cup LookupScripts(Unique(AdIdsOf(allRows))) :
       fetchAdStatuses(replies)
  \/ Enrich
  \/ \E replies \in BatchScripts(Slice(uniqueIds, batchAt)) : LookupBatch(replies)
  \/ saveOutput

SpecEnrich == InitEnrich /\ [][NextEnrich]_vars

\* ------------------------------------------------------------------------
\* Normalisation and summary on their own: fetchAdData after
\* fetchAllInsights returned one row of ad 1 with a list of entries in one
\* of actions, action_values, purchase_roas, or rows of ads 1, 2, .. with
\* their spend, and main after it
\* ------------------------------------------------------------------------
ActionTypes == {"omni_purchase", "purchase", "link_click"}

\* "3.52" and "42"
ActionValueTexts == { <<"3", ".", "5", "2">>, <<"4", "2">> }

\* FacebookAction, FacebookActionValue
ActionEntries == [action_type : ActionTypes, value : ActionValueTexts]

ActionLists == {None} \cup { Some(list) : list \in SeqsUpTo(ActionEntries, MaxActions) }

ListFields == {"actions", "action_values", "purchase_roas"}

DetailRow(field, list) == [InsightRow(1, 0) EXCEPT ![field] = list]

\* "12.345", "7.655", "0.004" and "3"
SpendTexts ==
  { <<"1", "2", ".", "3", "4", "5">>, <<"7", ".", "6", "5", "5">>,
    <<"0", ".", "0", "0", "4">>, <<"3">> }

SpendRows(spends) == [i \in 1..Len(spends) |-> [InsightRow(i, 0) EXCEPT !.spend = spends[i]]]

RowInputs ==
  { <<DetailRow(field, list)>> : field \in ListFields, list \in ActionLists }
    \cup { SpendRows(spends) : spends \in SeqsUpTo(SpendTexts, MaxRows) }

InitRow ==
  /\ pc = "idle"
  /\ attempt = 1
  /\ lastError = None
  /\ requests = 0
  /\ waits = << >>
  /\ log = << >>
  /\ returned = None
  /\ thrown = None
  /\ bucHeader = AbsentHeader
  /\ waitMs = None
  /\ rpc = "lookup"
  /\ now = 0
  /\ sent = NoneSent
  /\ runError = None
  /\ created = None
  /\ reportRunId = None
  /\ startTime = None
  /\ polled = << >>
  /\ asked = << >>
  /\ url = None
  /\ pages = << >>
  /\ allRows \in RowInputs
  /\ looked = None
  /\ output = None
  /\ adIds = << >>
  /\ uniqueIds = << >>
  /\ batchAt = 0
  /\ batches = << >>
  /\ statusMap = << >>
  /\ saved = None
  /\ InputChecked

SpecRow == InitRow /\ [][NextEnrich]_vars

\* ------------------------------------------------------------------------
\* The command line and the URL of the report: validateDate of config.ts as
\* parseArgs calls it, and buildInsightsUrl of fetcher.ts
\* ------------------------------------------------------------------------
PAGE_LIMIT == 50

DigitChars == { ToString(d) : d \in 0..9 }

\* the decimal digits of n, as many as width
RECURSIVE Padded(_, _)
Padded(n, width) ==
  IF width = 0 THEN << >> ELSE Padded(n \div 10, width - 1) \o <<ToString(n % 10)>>

DateText(year, month, day) ==
  Padded(year, 4) \o <<"-">> \o Padded(month, 2) \o <<"-">> \o Padded(day, 2)

\* years of one to four digits, a century year that is no leap year, a leap
\* year and a common year
Years == {50, 1900, 2024, 2025}

Months == 0..MaxMonth

Days == {0, 1} \cup 28..MaxDay

\* strings that are not of the form: "", "01-15-2025", "2025/01/15",
\* "20250115", "Jan 15, 2025", "not-a-date", "2025-1-15", "2025-01-15 ",
\* "2025-01-1a", "25-01-15"
OtherTexts ==
  { << >>,
    <<"0", "1", "-", "1", "5", "-", "2", "0", "2", "5">>,
    <<"2", "0", "2", "5", "/", "0", "1", "/", "1", "5">>,
    <<"2", "0", "2", "5", "0", "1", "1", "5">>,
    <<"J", "a", "n", " ", "1", "5", ",", " ", "2", "0", "2", "5">>,
    <<"n", "o", "t", "-", "a", "-", "d", "a", "t", "e">>,
    <<"2", "0", "2", "5", "-", "1", "-", "1", "5">>,
    <<"2", "0", "2", "5", "-", "0", "1", "-", "1", "5", " ">>,
    <<"2", "0", "2", "5", "-", "0", "1", "-", "1", "a">>,
    <<"2", "5", "-", "0", "1", "-", "1", "5">> }

DateTexts ==
  { DateText(y, m, d) : y \in Years, m \in Months, d \in Days } \cup OtherTexts

\* /^\d{4}-\d{2}-\d{2}$/.test(text)
MatchesDateRegex(text) ==
  /\ Len(text) = 10
  /\ text[5] = "-" /\ text[8] = "-"
  /\ \A i \in (1..10) \ {5, 8} : text[i] \in DigitChars

\* days from 1970-01-01 to the day of a month of a year of the Gregorian
\* calendar, and back
DaysFromCivil(y, m, d) ==
  LET yy == IF m <= 2 THEN y - 1 ELSE y
      era == yy \div 400
      yoe == yy - era * 400
      doy == (153 * (IF m > 2 THEN m - 3 ELSE m + 9) + 2) \div 5 + d - 1
      doe == yoe * 365 + yoe \div 4 - yoe \div 100 + doy
  IN  era * 146097 + doe - 719468

CivilFromDays(days) ==
  LET z == days + 719468
      era == z \div 146097
      doe == z - era * 146097
      yoe == (doe - doe \div 1460 + doe \div 36524 - doe \div 146096) \div 365
      doy == doe - (365 * yoe + yoe \div 4 - yoe \div 100)
      mp == (5 * doy + 2) \div 153
      d == doy - (153 * mp + 2) \div 5 + 1
      m == IF mp < 10 THEN mp + 3 ELSE mp - 9
  IN  [year |-> yoe + era * 400 + (IF m <= 2 THEN 1 ELSE 0), month |-> m - 1, day |-> d]

\* Date.UTC takes a year from 0 to 99 as 1900 + year
MakeFullYear(year) == IF year \in 0..99 THEN 1900 + year ELSE year

\* new Date(Date.UTC(year, monthIndex, day)): getUTCFullYear, getUTCMonth and
\* getUTCDate of the day that lies day - 1 days after the first of the month
\* monthIndex months after January of the year
DateUTC(year, monthIndex, day) ==
  CivilFromDays(DaysFromCivil(MakeFullYear(year) + monthIndex \div 12,
                              (monthIndex % 12) + 1, 1) + day - 1)

\* what validateDate does for the text: "valid" when it returns, else the
\* ValidationError it throws
validateDateOf(text) ==
  IF ~MatchesDateRegex(text)
  THEN "ValidationError: Invalid date format"
  ELSE LET year == NaturalOf(SubSeq(text, 1, 4))
           month == NaturalOf(SubSeq(text, 6, 7))
           day == NaturalOf(SubSeq(text, 9, 10))
           parsed == DateUTC(year, month - 1, day)
       IN  IF parsed.year # year \/ parsed.month # month - 1 \/ parsed.day # day
           THEN "ValidationError: not a valid calendar date"
           ELSE "valid"

\* parseArgs: validateDate(date)
validateDate ==
  /\ dateCheck = "pending"
  /\ dateCheck' = validateDateOf(date)
  /\ UNCHANGED <<date, limitArg, insightsUrl, execVars, waitVars, runVars>>

\* the limit arguments buildInsightsUrl is called with: none, 25 and
\* MIN_PAGE_LIMIT
LimitArgs == {None, Some(25), Some(10)}

\* the parameters of the URL that the claims read
InsightsUrlOf(text, limit) ==
  [level |-> "ad",
   time_range |-> [since |-> text, until |-> text],
   breakdowns |-> "hourly_stats_aggregated_by_advertiser_time_zone",
   limit |-> ToString(OrElse(limit, PAGE_LIMIT))]

\* buildInsightsUrl(params) and buildInsightsUrl(params, limit) for the
\* date parseArgs accepted
buildInsightsUrl(limit) ==
  /\ dateCheck = "valid"
  /\ insightsUrl = None
  /\ limitArg' = limit
  /\ insightsUrl' = Some(InsightsUrlOf(date, limit))
  /\ UNCHANGED <<date, dateCheck, execVars, waitVars, runVars>>

InitInput ==
  /\ pc = "idle"
  /\ attempt = 1
  /\ lastError = None
  /\ requests = 0
  /\ waits = << >>
  /\ log = << >>
  /\ returned = None
  /\ thrown = None
  /\ bucHeader = AbsentHeader
  /\ waitMs = None
  /\ InitRun
  /\ date \in DateTexts
  /\ dateCheck = "pending"
  /\ limitArg = None
  /\ insightsUrl = None

NextInput ==
  \/ validateDate
  \/ \E limit \in LimitArgs : buildInsightsUrl(limit)

SpecInput == InitInput /\ [][NextInput]_vars

\* ------------------------------------------------------------------------
\* The replies the claims speak about, read off what fetch() produced
\* ------------------------------------------------------------------------
LastReply == log[Len(log)]

\* the reply is a response whose body parsed to an object with an error member
HasEnvelope(e) == ~e.threw /\ e.response.body.parse = "object" /\ e.response.body.error # None

EnvelopeOf(e) == Get(e.response.body.error)

CarriesCode(e, codes) ==
  HasEnvelope(e) /\ EnvelopeOf(e).code # None /\ Get(EnvelopeOf(e).code) \in codes

AuthReply(e) == CarriesCode(e, {190, 10, 200})

RateLimitReply(e) == CarriesCode(e, {4, 17, 613, 80000, 80003, 80004, 80014})

\* an error envelope with a code outside both sets, or with no code
ApiErrorReply(e) == HasEnvelope(e) /\ ~AuthReply(e) /\ ~RateLimitReply(e)

\* a body without envelope (or no body) and a 4xx status
HttpErrorReply(e) ==
  /\ ~e.threw
  /\ e.response.body.parse \in {"object", "fail"}
  /\ e.response.body.error = None
  /\ e.response.status >= 400 /\ e.response.status < 500

\* status >= 500 and a body that is not JSON
ServerTransientReply(e) ==
  ~e.threw /\ e.response.status >= 500 /\ e.response.body.parse = "fail"

\* fetch() rejected with one of the network errors the executor retries
RetryableNetworkReply(e) == e.threw /\ e.message \in {"fetch failed", "read ECONNRESET"}

TransientReply(e) == ServerTransientReply(e) \/ RetryableNetworkReply(e)

\* the call failed with the retries-exhausted error
Exhausted == pc = "thrown" /\ thrown = Some(RetriesExhausted(lastError))

\* ------------------------------------------------------------------------
\* C1: Retry ceiling.  When every attempt of a call ends in a transient
\* failure (status >= 500 with an unparseable body, or a retryable network
\* exception), the call issues exactly MAX_RETRIES requests and then fails:
\* no request beyond MAX_RETRIES, no body returned, and once the third
\* wait is over the call has failed with the retries-exhausted error.
\* ------------------------------------------------------------------------
C1_RetryCeiling ==
  (\A i \in 1..Len(log) : TransientReply(log[i])) =>
    /\ requests = Len(log) /\ requests <= MAX_RETRIES
    /\ pc # "returned" /\ returned = None
    /\ pc = "fetch" => requests < MAX_RETRIES
    /\ pc = "thrown" => requests = MAX_RETRIES /\ Exhausted

C1_Witness ==
  /\ pc = "thrown" /\ requests = MAX_RETRIES
  /\ \A i \in 1..Len(log) : TransientReply(log[i])
  /\ ServerTransientReply(log[1]) /\ RetryableNetworkReply(log[2])

\* ------------------------------------------------------------------------
\* C2: Fatal kinds are never retried.  On whichever attempt a response
\* classifies as Auth, ApiError or HttpError, the call fails at that
\* attempt: that reply is the last request of the call, no wait follows it
\* and the error is not the retries-exhausted one.
\* ------------------------------------------------------------------------
FatalReply(e) == AuthReply(e) \/ ApiErrorReply(e) \/ HttpErrorReply(e)

C2_FatalNotRetried ==
  \A i \in 1..Len(log) :
    FatalReply(log[i]) =>
      /\ i = Len(log) /\ requests = i
      /\ pc = "thrown"
      /\ Len(waits) = i - 1
      /\ thrown # None /\ InstanceOfFacebookApiError(Get(thrown))
      /\ ~Exhausted

C2_Witness ==
  /\ Len(log) = MAX_RETRIES /\ pc = "thrown"
  /\ HttpErrorReply(log[MAX_RETRIES])
  /\ Len(waits) = MAX_RETRIES - 1

\* ------------------------------------------------------------------------
\* C3: Classifier precedence.  A response whose body carries an error code
\* of the authentication set {190, 10, 200} is classified as Auth for every
\* HTTP status, status >= 500 included: the call fails on that attempt with
\* an AuthenticationError carrying that code, and the reply is followed by
\* no wait.
\* ------------------------------------------------------------------------
C3_AuthPrecedence ==
  \A i \in 1..Len(log) :
    AuthReply(log[i]) =>
      /\ i = Len(log) /\ pc = "thrown"
      /\ thrown # None
      /\ Get(thrown).name = "AuthenticationError"
      /\ Get(thrown).code = EnvelopeOf(log[i]).code
      /\ Len(waits) = i - 1

C3_Witness ==
  /\ Len(log) = 2 /\ pc = "thrown"
  /\ AuthReply(log[2]) /\ log[2].response.status >= 500
  /\ EnvelopeOf(log[2]).code = Some(10)
  /\ Get(thrown).name = "AuthenticationError"

\* ------------------------------------------------------------------------
\* C4: Rate-limit handling.  When an attempt's body carries a rate-limit
\* code (and no auth code), for any HTTP status, the executor waits the
\* resolved wait time and then goes on to the next attempt; the attempt
\* counts against MAX_RETRIES, so the call fails only when the rate-limited
\* attempt was attempt MAX_RETRIES, and a server that always rate-limits
\* receives exactly MAX_RETRIES requests.
\* ------------------------------------------------------------------------
C4_RateLimitWaitsAndRetries ==
  \A i \in 1..Len(log) :
    RateLimitReply(log[i]) =>
      /\ Len(waits) >= i
      /\ waits[i] = [ms |-> getWaitTimeFromHeaders(log[i].response.buc), why |-> "rate-limit"]
      /\ i = Len(log) =>
           \/ pc = "sleep" /\ attempt = i
           \/ pc = "fetch" /\ attempt = i + 1 /\ i < MAX_RETRIES
           \/ Exhausted /\ i = MAX_RETRIES /\ requests = MAX_RETRIES

C4_Witness ==
  /\ Exhausted /\ requests = MAX_RETRIES
  /\ \A i \in 1..Len(log) : RateLimitReply(log[i])
  /\ log[1].response.status = 200 /\ log[2].response.status = 500
  /\ waits[1].ms = 600000 /\ waits[2].ms = DEFAULT_RATE_LIMIT_WAIT_MS

\* ------------------------------------------------------------------------
\* C5: Exhaustion error.  When all MAX_RETRIES attempts of a call fail with
\* retryable kinds, the error the call fails with carries the kind of the
\* last attempt's error: a RateLimitError when the last attempt was
\* rate-limited, and an error with a recorded cause, that of the last
\* attempt, otherwise.
\* ------------------------------------------------------------------------
RetryableReply(e) == TransientReply(e) \/ RateLimitReply(e)

C5_ExhaustionCarriesLastKind ==
  ( /\ pc = "thrown" /\ Len(log) = MAX_RETRIES
    /\ \A i \in 1..Len(log) : RetryableReply(log[i]) ) =>
      /\ thrown # None
      /\ RateLimitReply(LastReply) => Get(thrown).name = "RateLimitError"
      /\ lastError # None

C7_NoEnvelopeReturned ==
  /\ pc = "returned" =>
       /\ Len(log) > 0 /\ ~LastReply.threw
       /\ LastReply.response.body.parse = "object"
       /\ LastReply.response.body.error = None
       /\ LastReply.response.status \in 200..299
       /\ returned = Some(LastReply.response.body)
  /\ \A i \in 1..Len(log) :
       HasEnvelope(log[i]) =>
         IF RateLimitReply(log[i])
         THEN Len(waits) >= i /\ waits[i].why = "rate-limit"
         ELSE /\ i = Len(log) /\ pc = "thrown" /\ returned = None
              /\ thrown # None
              /\ Get(thrown).name =
                   (IF AuthReply(log[i]) THEN "AuthenticationError" ELSE "FacebookApiError")
              /\ Get(thrown).code = EnvelopeOf(log[i]).code

C7_Witness ==
  /\ Len(log) = 1 /\ pc = "thrown"
  /\ ApiErrorReply(log[1]) /\ log[1].response.status = 200
  /\ EnvelopeOf(log[1]).code = None
  /\ Get(thrown).name = "FacebookApiError"

\* ------------------------------------------------------------------------
\* C8: Every network-level exception raised by a request before a response
\* is received is classified as NetworkTransient and retried with backoff
\* while attempts remain: the attempt is followed by a backoff wait, and it
\* fails the call only when it was attempt MAX_RETRIES.
\* ------------------------------------------------------------------------
C8_EveryNetworkExceptionRetried ==
  \A i \in 1..Len(log) :
    log[i].threw =>
      /\ Len(waits) >= i /\ waits[i].why = "backoff"
      /\ (i = Len(log) /\ i < MAX_RETRIES) => pc # "thrown"

\* ------------------------------------------------------------------------
\* C9: An Auth or ApiError raised while classifying a response inside an
\* attempt propagates out of the executor unchanged (same kind, code,
\* subcode and message): the catch block does not record it as the last
\* error of a network failure, does not wait or retry, and does not wrap it
\* in the retries-exhausted error.
\* ------------------------------------------------------------------------
C9_ClassifiedErrorUnchanged ==
  (Len(log) > 0 /\ ~LastReply.threw) =>
    LET raised == TryBlock(LastReply.response, attempt, 0)
    IN  (raised.op = "throw" /\ InstanceOfFacebookApiError(Get(raised.err))) =>
          /\ pc = "thrown"
          /\ thrown = raised.err
          /\ Len(waits) = Len(log) - 1
          /\ lastError # raised.err

C9_Witness ==
  /\ Len(log) = 2 /\ pc = "thrown" /\ ~LastReply.threw
  /\ Get(thrown).name = "FacebookApiError"
  /\ Get(thrown).message = "Service temporarily unavailable: ECONNRESET"
  /\ Get(thrown).code = Some(1) /\ Get(thrown).subcode = Some(1504022)

\* ------------------------------------------------------------------------
\* C10: Wait-time resolution.  Whenever the usage header parses to an
\* object whose first key maps to an array whose first entry carries
\* estimated_time_to_regain_access = m minutes, the resolved wait is
\* m * 60000 ms, for every value m the field can carry; when the header is
\* absent, malformed, or the field is missing, the resolved wait is
\* 300000 ms.
\* ------------------------------------------------------------------------
CarriesMinutes(header) ==
  /\ header.kind = "object"
  /\ Len(header.members) >= 1
  /\ header.members[1].name # ""
  /\ header.members[1].value.isArray
  /\ Len(header.members[1].value.items) >= 1
  /\ header.members[1].value.items[1].estimated_time_to_regain_access # None

MinutesOf(header) == Get(header.members[1].value.items[1].estimated_time_to_regain_access)

C10_WaitResolution ==
  waitMs # None =>
    IF CarriesMinutes(bucHeader)
    THEN Get(waitMs) = MinutesOf(bucHeader) * 60000
    ELSE Get(waitMs) = 300000

\* ------------------------------------------------------------------------
\* What the claims about the run speak about
\* ------------------------------------------------------------------------
\* the rows of a page body, none when data is missing
RowsOf(body) == IF body.data = None THEN << >> ELSE Get(body.data)

RECURSIVE Concatenation(_)
\* the rows of the pages received, in page order and item order
Concatenation(received) ==
  IF received = << >> THEN << >>
  ELSE Concatenation(SubSeq(received, 1, Len(received) - 1))
         \o RowsOf(received[Len(received)].body)

\* the walker received the last page of the chain
LastPageReceived == pages # << >> /\ pages[Len(pages)].body.next = None

\* every results request so far was answered with a page
EachPageAtFirstAttempt == sent.results = Len(pages)

\* ------------------------------------------------------------------------
\* C11: Pagination Walker.  Once the last page of a chain has been received
\* and every results request succeeded on its first attempt, the walker has
\* returned (its url is null and the run is past the results loop) with
\* the concatenation of the pages' rows in page order and item order; the
\* requests issued are one per page: the first URL, then the next of each
\* page received; and no results request is issued afterwards.
\* ------------------------------------------------------------------------
C11_WalkerConcatenates ==
  LastPageReceived /\ EachPageAtFirstAttempt =>
    /\ url = None /\ rpc \notin {"create", "poll", "pollSleep", "results"}
    /\ allRows = Concatenation(pages)
    /\ pages[1].url = 1
    /\ \A i \in 1..(Len(pages) - 1) : pages[i].body.next = Some(pages[i + 1].url)
    /\ sent.results = Len(pages)

\* two pages with rows were walked, three rows came back
C11_Witness ==
  /\ LastPageReceived /\ EachPageAtFirstAttempt
  /\ Len(pages) = MaxPages
  /\ \A i \in 1..Len(pages) : RowsOf(pages[i].body) # << >>
  /\ Len(allRows) > Len(pages)

\* the statuses the claims call non-terminal
NonTerminal(status) ==
  status.async_status \notin {"Job Completed", "Job Failed", "Job Skipped"}

LastPolled == polled[Len(polled)]

\* the run is inside createInsightsReport or waitForReport
BeforeResults == rpc \in {"create", "poll", "pollSleep"}

\* ------------------------------------------------------------------------
\* C12: Async workflow completion.  When the k-th status received is
\* "Job Completed" after k-1 non-terminal ones, waitForReport has resolved
\* at that poll: the run is past the poll loop with no sleep or poll
\* pending, it has not failed in the wait (a later failure comes after a
\* results request), the statuses received are exactly these k, and each
\* poll that was answered at once cost one request, so that k polls
\* answered at once are k poll requests.
\* ------------------------------------------------------------------------
C12_CompletedResolves ==
  (polled # << >> /\ LastPolled.async_status = "Job Completed") =>
    /\ \A i \in 1..(Len(polled) - 1) : NonTerminal(polled[i])
    /\ ~BeforeResults
    /\ (rpc = "failed" => sent.results > 0)
    /\ sent.poll >= Len(polled)
    /\ (now = Get(startTime) + (Len(polled) - 1) * REPORT_POLL_INTERVAL_MS
          /\ rpc = "results" /\ pages = << >> => sent.poll = Len(polled))

\* "Job Started", "Job Running", "Job Completed": resolved after 3 polls
C12_Witness ==
  /\ Len(polled) = 3
  /\ polled[1].async_status = "Job Started"
  /\ polled[2].async_status = "Job Running"
  /\ polled[3].async_status = "Job Completed"
  /\ rpc = "results" /\ sent.poll = 3

\* no request after the polls, and nothing produced
NothingAfterPolls ==
  /\ sent.results = 0 /\ sent.lookup = 0 /\ sent.batch = 0
  /\ pages = << >> /\ batches = << >>
  /\ output = None /\ saved = None

\* ------------------------------------------------------------------------
\* C13: Async workflow failure.  When the last status received is
\* "Job Failed" or "Job Skipped", the run has failed at that poll with the
\* FacebookApiError naming the status: no later status is ever received
\* (the failed run takes no further step), and no results request, status
\* lookup or batch lookup has been issued and no output exists.
\* ------------------------------------------------------------------------
C13_FailedJobEndsRun ==
  (polled # << >> /\ LastPolled.async_status \in {"Job Failed", "Job Skipped"}) =>
    /\ rpc = "failed"
    /\ runError = Some(ReportFailed(LastPolled))
    /\ InstanceOfFacebookApiError(Get(runError))
    /\ \A i \in 1..(Len(polled) - 1) : NonTerminal(polled[i])
    /\ NothingAfterPolls

\* "Job Started", "Job Failed": failed after the 2nd poll
C13_Witness ==
  /\ Len(polled) = 2
  /\ polled[1].async_status = "Job Started"
  /\ polled[2].async_status = "Job Failed"
  /\ rpc = "failed" /\ sent.poll = 2

\* the time since waitForReport was entered
Elapsed == now - Get(startTime)

\* the run failed with the timeout error made from the last status received
TimedOutAtLastPoll ==
  /\ rpc = "failed"
  /\ polled # << >>
  /\ NonTerminal(LastPolled)
  /\ Elapsed > REPORT_TIMEOUT_MS
  /\ runError = Some(ReportTimedOut(LastPolled))
  /\ NothingAfterPolls

\* ------------------------------------------------------------------------
\* C14: Async workflow timeout.  When every poll is answered with a
\* non-terminal status and time advances by the poll interval, the poll
\* loop ends: the loop sleeps and polls again only while the elapsed time
\* is within the 5-minute threshold, and in the end the run has failed
\* with the timeout error that carries the status and the percentage of
\* the last status received, after more than 5 minutes.
\* ------------------------------------------------------------------------
C14_PollLoopTimesOut ==
  /\ [](rpc = "pollSleep" => Elapsed <= REPORT_TIMEOUT_MS)
  /\ <>TimedOutAtLastPoll

\* the 62nd poll came 305 s after the first: timed out with its 61 percent
C14_Witness ==
  /\ TimedOutAtLastPoll
  /\ Elapsed = REPORT_TIMEOUT_MS + REPORT_POLL_INTERVAL_MS
  /\ LastPolled.async_percent_completion = 61
  /\ Get(runError).message =
       "Insights report timed out after 300s (status: Job Running, 61%)"

\* ------------------------------------------------------------------------
\* C15: The timeout clock is set once.  Once waitForReport has read the
\* clock, no step of the run changes startTime; a poll goes on to sleep
\* only if the time since then, with the rate-limit and backoff waits of
\* that poll, is within the threshold; and a non-terminal status received
\* later than that fails the run with the timeout error.
\* ------------------------------------------------------------------------
C15_ClockSetOnce ==
  [][ /\ (startTime # None => startTime' = startTime)
      /\ (rpc = "poll" /\ rpc' = "pollSleep" =>
            now' - Get(startTime) <= REPORT_TIMEOUT_MS)
      /\ (rpc = "poll" /\ Len(polled') > Len(polled)
            /\ NonTerminal(polled'[Len(polled')])
            /\ now' - Get(startTime) > REPORT_TIMEOUT_MS =>
              /\ rpc' = "failed"
              /\ runError' = Some(ReportTimedOut(polled'[Len(polled')])))
    ]_vars

\* the first poll waited 300 s for a rate limit, the second came 5 s later
\* and timed out
C15_Witness ==
  /\ TimedOutAtLastPoll
  /\ Len(polled) = 2 /\ sent.poll = 3
  /\ Elapsed = DEFAULT_RATE_LIMIT_WAIT_MS + REPORT_POLL_INTERVAL_MS

\* the POST was answered with a success body without job identifier
CreatedWithoutId ==
  created # None /\ Get(created).report_run_id \in {None, Some("")}

\* ------------------------------------------------------------------------
\* C16: Submit without job identifier.  When the POST of
\* createInsightsReport is answered with a success body whose
\* report_run_id is missing or empty, the run has failed with the
\* FacebookApiError of createInsightsReport, no report id was returned,
\* and no poll, results or lookup request is ever issued.
\* ------------------------------------------------------------------------
C16_NoJobIdFails ==
  CreatedWithoutId =>
    /\ rpc = "failed"
    /\ runError = Some(FacebookApiError(
                     "POST /insights did not return a report_run_id", None, None))
    /\ InstanceOfFacebookApiError(Get(runError))
    /\ reportRunId = None /\ startTime = None
    /\ sent.poll = 0 /\ polled = << >>
    /\ NothingAfterPolls

\* the POST was rate limited once, then answered with an empty report_run_id
C16_Witness ==
  /\ created = Some([report_run_id |-> Some("")])
  /\ sent.submit = 2
  /\ rpc = "failed"

\* ------------------------------------------------------------------------
\* C17: Workflow ordering.  A step of the run issues a results request
\* only when the last poll returned "Job Completed", a poll request only
\* when the submit request returned a job identifier, and a status lookup
\* (of fetchAdData or of a batch) only when the last results page, the one
\* without next, has been received.
\* ------------------------------------------------------------------------
C17_WorkflowOrder ==
  [][ /\ (sent'.results > sent.results =>
            polled # << >> /\ LastPolled.async_status = "Job Completed")
      /\ (sent'.poll > sent.poll =>
            /\ created # None /\ ~CreatedWithoutId
            /\ reportRunId = Get(created).report_run_id)
      /\ (sent'.lookup > sent.lookup \/ sent'.batch > sent.batch =>
            LastPageReceived /\ url = None)
    ]_vars

\* a run that went through every stage: polls, two pages, both lookups
C17_Witness ==
  /\ rpc = "done"
  /\ sent.submit > 0 /\ sent.poll > 1 /\ sent.results > 1
  /\ sent.lookup > 0 /\ sent.batch > 0

\* ------------------------------------------------------------------------
\* What the claims about the status stage speak about
\* ------------------------------------------------------------------------
\* the distinct ad identifiers of the rows retrieved, in order
DistinctAds == Unique(AdIdsOf(allRows))

\* the identifier lists of the status lookups issued so far, in order: the
\* lookup of fetchAdData, then the batches
LookupsIssued ==
  (IF looked # None /\ Get(looked).ids # << >> THEN <<Get(looked).ids>> ELSE << >>)
    \o [k \in 1..Len(batches) |-> batches[k].ids]

\* the status stage is over
StatusStageOver == rpc \in {"save", "done"}

\* the k-th of the batches of BATCH_SIZE that partition ids in order
BatchOf(ids, k) ==
  SubSeq(ids, BATCH_SIZE * (k - 1) + 1,
         IF BATCH_SIZE * k < Len(ids) THEN BATCH_SIZE * k ELSE Len(ids))

\* ------------------------------------------------------------------------
\* C18: Status Enricher batching.  When the status stage of a run is over,
\* the status lookups it issued for the N distinct ads of the rows are
\* exactly ceil(N / 50) lookups, the k-th for the k-th batch of 50 of the
\* distinct identifiers in order (the last for the remainder), so that no
\* identifier is looked up twice and none is left out.
\* ------------------------------------------------------------------------
C18_LookupsPartitionAds ==
  StatusStageOver =>
    /\ Len(LookupsIssued) = (Len(DistinctAds) + BATCH_SIZE - 1) \div BATCH_SIZE
    /\ \A k \in 1..Len(LookupsIssued) : LookupsIssued[k] = BatchOf(DistinctAds, k)

\* ------------------------------------------------------------------------
\* C19: Graceful degradation.  A status lookup that fails after its
\* retries does not abort the run: no run has failed with a status lookup
\* or a batch lookup that used up its MAX_RETRIES requests; when the
\* status stage is over, every record of an ad of a failed batch has status
\* "UNKNOWN", every record of an ad of another batch has the status its
\* lookup returned, the batches after a failed one were requested (the
\* batches cover the distinct ads), and the finished run has saved its
\* output.
\* ------------------------------------------------------------------------
C19_FailedLookupDegrades ==
  /\ (sent.lookup >= MAX_RETRIES \/ sent.batch >= MAX_RETRIES => rpc # "failed")
  /\ (StatusStageOver /\ allRows # << >> =>
        /\ \A i \in 1..Len(DistinctAds) :
             \E k \in 1..Len(batches) : \E j \in 1..Len(batches[k].ids) :
               batches[k].ids[j] = DistinctAds[i]
        /\ \A k \in 1..Len(batches) : \A i \in 1..Len(Get(output).data) :
             LET record == Get(output).data[i]
             IN  record.ad_id \in Elements(batches[k].ids) =>
                   record.status =
                     IF batches[k].body = None THEN "UNKNOWN"
                     ELSE StatusOr(StatusesOf(Get(batches[k].body)), record.ad_id))
  /\ (rpc = "done" => saved = output /\ saved # None)

\* the status a lookup returned for the ad: none when no body came, when the
\* body has no entry for the ad, or when the entry has no effective_status
ReturnedFor(body, ad) ==
  IF body # None /\ ad \in DOMAIN Get(body) THEN Get(body)[ad].effective_status ELSE None

\* the lookup whose result is in the output: the batch of the ad once main
\* has set the statuses, the lookup of fetchAdData before
LookupFor(ad) ==
  IF StatusStageOver /\ batches # << >>
  THEN LET k == CHOOSE k \in 1..Len(batches) : ad \in Elements(batches[k].ids)
       IN  batches[k].body
  ELSE Some(Get(looked).body)

\* ------------------------------------------------------------------------
\* C20: Status completeness.  Every output of the run, as fetchAdData
\* returns it and as main saves it, has one record per row retrieved, in
\* order and with the ad_id of the row, and the status of every record is
\* defined: it is the status the lookup returned for the ad when it
\* returned one, and "UNKNOWN" otherwise, also when the lookup failed or
\* its response has no entry for the ad or an entry without effective_status.
\* ------------------------------------------------------------------------
C20_StatusComplete ==
  output # None =>
    LET data == Get(output).data
    IN  /\ Len(data) = Len(allRows)
        /\ Get(output).metadata.total_records = Len(allRows)
        /\ \A i \in 1..Len(data) :
             /\ data[i].ad_id = allRows[i].ad_id
             /\ data[i].status = OrElse(ReturnedFor(LookupFor(data[i].ad_id), data[i].ad_id),
                                        "UNKNOWN")
        /\ (rpc = "done" => saved = output)

\* saved: two records, ad 1 with the status returned, ad 2 left out of the
\* response and "UNKNOWN"
C20_Witness ==
  /\ rpc = "done" /\ saved # None
  /\ Len(Get(saved).data) = 2
  /\ Get(saved).data[1].ad_id = 1 /\ Get(saved).data[1].status = "PAUSED"
  /\ Get(saved).data[2].ad_id = 2 /\ Get(saved).data[2].status = "UNKNOWN"
  /\ batches[1].body # None /\ 2 \notin DOMAIN Get(batches[1].body)

\* ------------------------------------------------------------------------
\* C21: StatusMap write-once.  During one run of fetchAdStatuses of
\* statusFetcher.ts, an identifier that has a status in the StatusMap keeps
\* that status in every later step, whether the batch of the step succeeds
\* or fails and whatever keys its response carries.
\* ------------------------------------------------------------------------
C21_StatusMapWriteOnce ==
  [][\A id \in DOMAIN statusMap :
       id \in DOMAIN statusMap' /\ statusMap'[id] = statusMap[id]]_vars

\* a results request failed after a page with rows had been accumulated
LaterPageFailed ==
  rpc = "failed" /\ pages # << >> /\ allRows # << >> /\ sent.results > Len(pages)

\* ------------------------------------------------------------------------
\* C22: All-or-nothing run.  fetchAdData has returned an output only when
\* the submit returned a job, the polls received were non-terminal up to a
\* last one that is "Job Completed", and every page of the chain up to the
\* last was received; the output then has a record for every row of those
\* pages and no error is recorded.  A run that failed, also on a later
\* results page after rows of earlier pages were accumulated, carries one
\* error and has returned and saved no output.
\* ------------------------------------------------------------------------
C22_AllOrNothing ==
  /\ (output # None =>
        /\ runError = None
        /\ created # None /\ ~NoReportRunId(Get(created))
        /\ polled # << >> /\ JobCompleted(LastPolled)
        /\ \A k \in 1..(Len(polled) - 1) : NonTerminal(polled[k])
        /\ LastPageReceived
        /\ \A i \in 1..(Len(pages) - 1) : pages[i].body.next = Some(pages[i + 1].url)
        /\ Len(Get(output).data) = Len(Concatenation(pages)))
  /\ (rpc = "failed" =>
        /\ runError # None /\ Cardinality(runError) = 1
        /\ output = None /\ saved = None)
  /\ (saved # None => output # None)

\* the second page failed after the first had delivered rows: no output
C22_Witness == LaterPageFailed /\ output = None /\ saved = None

\* ------------------------------------------------------------------------
\* What the claims about normalizeRow speak about
\* ------------------------------------------------------------------------
\* the number a numeral of the rows stands for, in thousandths
ValueOf(text) ==
  CASE text = <<"3", ".", "5", "2">> -> 3520
    [] text = <<"4", "2">> -> 42000
    [] text = <<"1", "2", ".", "3", "4", "5">> -> 12345
    [] text = <<"7", ".", "6", "5", "5">> -> 7655
    [] text = <<"0", ".", "0", "0", "4">> -> 4
    [] text = <<"3">> -> 3000
    [] text = <<"0", ".", "5">> -> 500

\* the list is there and has entries
HasEntries(list) == list # None /\ Get(list) # << >>

\* the positions of the entries of the list with the type
Tagged(list, type) == { k \in 1..Len(Get(list)) : Get(list)[k].action_type = type }

\* the value of the first entry of the list with the type
FirstTagged(list, type) ==
  ValueOf(Get(list)[CHOOSE k \in Tagged(list, type) :
                     \A j \in Tagged(list, type) : k <= j].value)

\* ------------------------------------------------------------------------
\* C23: normalizeRow purchase_roas.  In every output, the purchase_roas of
\* the record of a row is the value of the first purchase_roas entry of the
\* row with action_type "omni_purchase", wherever it stands in the list;
\* the value of the first entry when no entry has that type; and null when
\* the row has no purchase_roas list or an empty one.
\* ------------------------------------------------------------------------
C23_PurchaseRoas ==
  output # None =>
    \A i \in 1..Len(allRows) :
      LET list == allRows[i].purchase_roas
          result == Get(output).data[i].purchase_roas
      IN  IF ~HasEntries(list) THEN result = None
          ELSE IF Tagged(list, "omni_purchase") # {}
          THEN result = Some(FirstTagged(list, "omni_purchase"))
          ELSE result = Some(ValueOf(Get(list)[1].value))

\* an omni_purchase entry standing second won over a link_click entry
C23_Witness ==
  /\ output # None /\ Len(allRows) = 1
  /\ allRows[1].purchase_roas =
       Some(<<[action_type |-> "link_click", value |-> <<"4", "2">>],
              [action_type |-> "omni_purchase", value |-> <<"3", ".", "5", "2">>]>>)
  /\ Get(output).data[1].purchase_roas = Some(3520)

\* ------------------------------------------------------------------------
\* C24: normalizeRow purchase_value.  In every output, the purchase_value
\* of the record of a row is the value of the first action_values entry of
\* the row tagged "omni_purchase"; when there is none, the value of the
\* first entry tagged "purchase"; otherwise null, whatever entries of other
\* types the list holds and wherever they stand.
\* ------------------------------------------------------------------------
C24_PurchaseValue ==
  output # None =>
    \A i \in 1..Len(allRows) :
      LET list == allRows[i].action_values
          result == Get(output).data[i].purchase_value
      IN  IF ~HasEntries(list) THEN result = None
          ELSE IF Tagged(list, "omni_purchase") # {}
          THEN result = Some(FirstTagged(list, "omni_purchase"))
          ELSE IF Tagged(list, "purchase") # {}
          THEN result = Some(FirstTagged(list, "purchase"))
          ELSE result = None

\* a link_click entry standing first supplied nothing: the purchase entry
\* after it did
C24_Witness ==
  /\ output # None /\ Len(allRows) = 1
  /\ allRows[1].action_values =
       Some(<<[action_type |-> "link_click", value |-> <<"4", "2">>],
              [action_type |-> "purchase", value |-> <<"3", ".", "5", "2">>]>>)
  /\ Get(output).data[1].purchase_value = Some(3520)

\* ------------------------------------------------------------------------
\* C25: normalizeRow actions.  In every output, the actions of the record
\* of a row are as many as the actions of the row, in the same order, the
\* i-th with the action_type of the i-th entry as type and its numeric
\* value as count; a row without actions field gives an empty list.
\* ------------------------------------------------------------------------
C25_Actions ==
  output # None =>
    \A i \in 1..Len(allRows) :
      LET list == allRows[i].actions
          result == Get(output).data[i].actions
      IN  IF list = None THEN result = << >>
          ELSE /\ Len(result) = Len(Get(list))
               /\ \A k \in 1..Len(result) :
                    result[k] = [type |-> Get(list)[k].action_type,
                                 count |-> ValueOf(Get(list)[k].value)]

\* two actions of different types and values, in the order of the row
C25_Witness ==
  /\ output # None /\ Len(allRows) = 1
  /\ allRows[1].actions # None
  /\ Get(output).data[1].actions =
       <<[type |-> "link_click", count |-> 42000],
         [type |-> "omni_purchase", count |-> 3520]>>

\* the sum of the spend of the first n rows, in thousandths
RECURSIVE SpendOfRows(_, _)
SpendOfRows(rows, n) ==
  IF n = 0 THEN 0 ELSE SpendOfRows(rows, n - 1) + ValueOf(rows[n].spend)

\* the rows spend 12.345 and 7.655
SpentTwentyInTwo ==
  /\ Len(allRows) = 2
  /\ ValueOf(allRows[1].spend) = 12345 /\ ValueOf(allRows[2].spend) = 7655

\* ------------------------------------------------------------------------
\* C26: Summary total_spend.  In every output, total_spend is the sum of
\* the spend of all rows rounded to 2 decimal places after the summation:
\* the multiple of 0.01 nearest to the sum, the upper one at a tie.  Rows
\* that spend 12.345 and 7.655 give 20.00, not the 20.01 their rounded
\* values add up to.
\* ------------------------------------------------------------------------
C26_TotalSpendRoundedOnce ==
  output # None =>
    LET sum == SpendOfRows(allRows, Len(allRows))
        total == Get(output).metadata.summary.total_spend
    IN  /\ total % 10 = 0
        /\ sum - 5 < total /\ total <= sum + 5
        /\ (SpentTwentyInTwo => total = 20000)

\* the output for the rows that spend 12.345 and 7.655
C26_Witness ==
  /\ output # None /\ SpentTwentyInTwo
  /\ Get(output).metadata.summary.total_spend = 20000
  /\ Get(output).data[1].spend = 12345 /\ Get(output).data[2].spend = 7655

\* the values of a field among the rows retrieved
ValuesAmongRows(field) == { allRows[i][field] : i \in 1..Len(allRows) }

\* ------------------------------------------------------------------------
\* C27: Summary distinct counts.  In every output, unique_ads,
\* unique_campaigns and unique_adsets are the numbers of distinct ad_id,
\* campaign_id and adset_id values among the records, which are those of
\* the rows retrieved, while total_records is the number of rows: a row
\* that comes on two pages counts twice in total_records and once in the
\* distinct counts.
\* ------------------------------------------------------------------------
C27_DistinctCounts ==
  output # None =>
    LET summary == Get(output).metadata.summary
        data == Get(output).data
    IN  /\ summary.unique_ads = Cardinality({ data[i].ad_id : i \in 1..Len(data) })
        /\ summary.unique_campaigns = Cardinality({ data[i].campaign_id : i \in 1..Len(data) })
        /\ summary.unique_adsets = Cardinality({ data[i].adset_id : i \in 1..Len(data) })
        /\ summary.unique_ads = Cardinality(ValuesAmongRows("ad_id"))
        /\ summary.unique_campaigns = Cardinality(ValuesAmongRows("campaign_id"))
        /\ summary.unique_adsets = Cardinality(ValuesAmongRows("adset_id"))
        /\ Get(output).metadata.total_records = Len(allRows)

\* the same row came on both pages: two records, one ad
C27_Witness ==
  /\ output # None /\ Len(pages) = 2
  /\ RowsOf(pages[1].body) = RowsOf(pages[2].body) /\ Len(RowsOf(pages[1].body)) = 1
  /\ Get(output).metadata.total_records = 2
  /\ Get(output).metadata.summary.unique_ads = 1

\* ------------------------------------------------------------------------
\* C28: buildInsightsUrl default limit.  A URL that buildInsightsUrl built
\* without a limit argument has the limit query parameter 25.
\* ------------------------------------------------------------------------
C28_DefaultLimit ==
  insightsUrl # None /\ limitArg = None => Get(insightsUrl).limit = "25"

\* ------------------------------------------------------------------------
\* What the claim about validateDate speaks about
\* ------------------------------------------------------------------------
\* the number a string of digits writes
Written(digits) ==
  IF Len(digits) = 2
  THEN CHOOSE n \in 0..99 : Padded(n, 2) = digits
  ELSE CHOOSE n \in 0..9999 : Padded(n, 4) = digits

\* four digits, a dash, two digits, a dash, two digits
HasDateForm(text) ==
  /\ Len(text) = 10
  /\ \A i \in 1..10 : IF i \in {5, 8} THEN text[i] = "-" ELSE text[i] \in DigitChars

LeapYear(y) == y % 4 = 0 /\ (y % 100 # 0 \/ y % 400 = 0)

DaysInMonth(y, m) ==
  IF m = 2 THEN (IF LeapYear(y) THEN 29 ELSE 28)
  ELSE IF m \in {4, 6, 9, 11} THEN 30 ELSE 31

\* the text names a day of the calendar
NamesRealDate(text) ==
  LET y == Written(SubSeq(text, 1, 4))
      m == Written(SubSeq(text, 6, 7))
      d == Written(SubSeq(text, 9, 10))
  IN  m \in 1..12 /\ d \in 1..DaysInMonth(y, m)

\* ------------------------------------------------------------------------
\* C29: validateDate.  The date is accepted exactly when it has the form
\* YYYY-MM-DD and names a real calendar date; every other string is
\* rejected with a ValidationError.
\* ------------------------------------------------------------------------
C29_ValidDateAccepted ==
  dateCheck # "pending" =>
    IF HasDateForm(date) /\ NamesRealDate(date)
    THEN dateCheck = "valid"
    ELSE dateCheck \in { "ValidationError: Invalid date format",
                         "ValidationError: not a valid calendar date" }

\* the waits of the current call that are backoff waits: every iteration
\* that goes on sleeps once, so the i-th wait is taken on attempt i
BackoffWaits == { i \in 1..Len(waits) : waits[i].why = "backoff" }

\* whole seconds of a wait: its base, the jitter being less than a second
BaseSeconds(i) == waits[i].ms \div 1000

\* ------------------------------------------------------------------------
\* C30: Backoff schedule.  The wait taken after a transient failure on
\* attempt k is 2^k seconds (2 s, 4 s, 8 s for attempts 1, 2, 3) plus a
\* jitter of at least 0 and less than 1 second, added to the base; the
\* bases of successive backoff waits of one call never decrease.
\* ------------------------------------------------------------------------
C30_BackoffSchedule ==
  /\ \A k \in BackoffWaits :
       /\ k \in 1..3
       /\ waits[k].ms - (2 ^ k) * 1000 >= 0
       /\ waits[k].ms - (2 ^ k) * 1000 < 1000
       /\ BaseSeconds(k) = <<2, 4, 8>>[k]
  /\ \A i, j \in BackoffWaits : i < j => BaseSeconds(i) <= BaseSeconds(j)

\* three transient failures: waits of 2 s and the largest jitter, 4 s and no
\* jitter, 8 s and the largest jitter
C30_Witness ==
  /\ Len(waits) = 3 /\ BackoffWaits = 1..3
  /\ waits[1].ms = 2999 /\ waits[2].ms = 4000 /\ waits[3].ms = 8999

\* ------------------------------------------------------------------------
\* C31: Poll interval.  A poll is one iteration of the loop of
\* waitForReport: one call of the Request Executor for the job's status.
\* Poll requests are issued only when the loop is at its poll; a poll that
\* was answered never leads straight to the next poll; and the loop comes
\* back to its poll after an answered poll only out of its sleep, 5 seconds
\* after the answer and with no request in between.
\* ------------------------------------------------------------------------
C31_PollInterval ==
  [][/\ (sent'.poll > sent.poll => rpc = "poll")
     /\ (rpc = "poll" /\ polled' # polled => rpc' # "poll")
     /\ (rpc' = "poll" /\ polled # << >> =>
           /\ rpc = "pollSleep"
           /\ now' - now = 5000
           /\ sent' = sent /\ polled' = polled)]_vars

\* two polls answered at their first request, the second 5 seconds after
\* the first
C31_Witness ==
  /\ Len(polled) = 2 /\ sent.poll = 2 /\ sent.submit = 1
  /\ now = 5000

\* ------------------------------------------------------------------------
\* C32: Status lookups under the Request Executor policy.  A status batch
\* whose response carries a rate-limit error code in its body is requested
\* again unless that was attempt MAX_RETRIES, and a batch that met such a
\* response has its identifiers set to "UNKNOWN" by failure only after
\* MAX_RETRIES requests.
\* ------------------------------------------------------------------------
C32_StatusLookupRetried ==
  \A k \in 1..Len(batches) :
    LET replies == batches[k].log
    IN  /\ \A i \in 1..Len(replies) :
             RateLimitReply(replies[i]) /\ i < MAX_RETRIES => Len(replies) > i
        /\ (batches[k].body = None /\ (\E i \in 1..Len(replies) : RateLimitReply(replies[i]))
              => Len(replies) = MAX_RETRIES)

\* the error is the retries-exhausted error of the Request Executor
RunExhausted(err) ==
  \E last \in {None, Some(PlainError("Error", "fetch failed"))} :
    err = Some(RetriesExhausted(last))

\* the requests a step issued
Issued(kind) == sent'[kind] - sent[kind]

\* statusFetcher.ts goes on after the reply: status 429, status >= 500 or a
\* network error it retries
StatusRetryable(e) ==
  IF e.threw THEN IsNetworkError(PlainError("Error", e.message))
  ELSE e.response.status = 429 \/ e.response.status >= 500

\* ------------------------------------------------------------------------
\* C33: Retry state is per call.  Every call of the run (the submit, each
\* poll, each results page, each status lookup and batch) issues at most
\* MAX_RETRIES requests whatever the calls before it issued, and a call
\* gives up for exhausted retries only when it has itself issued
\* MAX_RETRIES requests: requests and failures of earlier calls take nothing
\* from its budget.
\* ------------------------------------------------------------------------
C33_RetryStatePerCall ==
  [][/\ \A kind \in DOMAIN sent : Issued(kind) \in 0..MAX_RETRIES
     /\ (runError' # runError /\ RunExhausted(runError') =>
           \E kind \in DOMAIN sent : Issued(kind) = MAX_RETRIES)
     /\ (batches' # batches =>
           LET b == batches'[Len(batches')]
           IN  /\ Len(b.log) = Issued("batch")
               /\ (b.body = None /\ StatusRetryable(b.log[Len(b.log)]) =>
                     Issued("batch") = MAX_RETRIES))]_vars

\* the submit and two polls each needed a second request, and a results
\* page then used up its own MAX_RETRIES requests
C33_Witness ==
  /\ sent.submit = 2 /\ sent.poll = 4 /\ Len(polled) = 2
  /\ sent.results = MAX_RETRIES /\ pages = << >>
  /\ rpc = "failed" /\ RunExhausted(runError)

\* the call is under way
InCall == pc \in {"fetch", "sleep"}

\* the call is over
CallEnded ==
  \/ pc = "returned" /\ returned # None
  \/ pc = "thrown" /\ thrown # None

\* ------------------------------------------------------------------------
\* C34: Whatever the responses and exceptions, one call of the Request
\* Executor issues at least 1 and at most MAX_RETRIES requests and takes at
\* most MAX_RETRIES waits; every request is made on an attempt of its own
\* (each step of a call moves it on to a request or to the next attempt);
\* and a call that has begun always ends, returning a body or failing.
\* ------------------------------------------------------------------------
C34_CallBounded ==
  /\ [](/\ requests \in 0..MAX_RETRIES
        /\ Len(waits) <= MAX_RETRIES
        /\ attempt \in 1..(MAX_RETRIES + 1)
        /\ (pc = "fetch" => attempt = requests + 1)
        /\ (pc = "sleep" => attempt = requests)
        /\ (pc \in {"returned", "thrown"} => CallEnded /\ requests >= 1))
  /\ [][InCall => requests' + attempt' > requests + attempt]_vars
  /\ (InCall ~> CallEnded)

\* a call that used every attempt: three requests, a wait after each
C34_Witness ==
  /\ pc = "thrown" /\ requests = MAX_RETRIES /\ Len(waits) = MAX_RETRIES
  /\ attempt = MAX_RETRIES + 1
  /\ log[1].threw /\ ~log[2].threw /\ log[3].threw

\* the replies of the call so far that were retryable failures
RetryableFailures == { i \in 1..Len(log) : RetryableReply(log[i]) }

\* the wait the executor owes after the reply of attempt k: the rate-limit
\* wait resolved from the headers of the response, or 2^k s and a jitter
FullWait(k, w) ==
  IF RateLimitReply(log[k])
  THEN w = [ms |-> getWaitTimeFromHeaders(log[k].response.buc), why |-> "rate-limit"]
  ELSE /\ w.why = "backoff"
       /\ w.ms >= (2 ^ k) * 1000 /\ w.ms < (2 ^ k) * 1000 + 1000

\* ------------------------------------------------------------------------
\* C35: The Request Executor waits after every retryable failure, the one
\* on the last attempt included.  The waits of a call are as many as its
\* retryable failures (rate-limited or transient replies), each the full
\* rate-limit wait or backoff of its attempt; a retryable failure on attempt
\* MAX_RETRIES puts the call to sleep, and the retries-exhausted failure is
\* reported only out of that sleep, after MAX_RETRIES waits.
\* ------------------------------------------------------------------------
C35_WaitAfterEveryRetryable ==
  /\ [](/\ Len(waits) = Cardinality(RetryableFailures)
        /\ \A k \in RetryableFailures : k <= Len(waits) /\ FullWait(k, waits[k])
        /\ (Len(log) = MAX_RETRIES /\ RetryableReply(log[MAX_RETRIES]) =>
              /\ Len(waits) = MAX_RETRIES
              /\ pc = "sleep" \/ Exhausted))
  /\ [][Exhausted' /\ ~Exhausted =>
          /\ pc = "sleep" /\ Len(waits) = MAX_RETRIES
          /\ waits' = waits /\ requests' = requests]_vars

\* a network failure, a rate-limited reply and a server error: three waits,
\* the last one the 8 s backoff of attempt 3, and then the failure
C35_Witness ==
  /\ Exhausted /\ Len(log) = MAX_RETRIES /\ Len(waits) = MAX_RETRIES
  /\ RetryableNetworkReply(log[1]) /\ RateLimitReply(log[2])
  /\ ServerTransientReply(log[3])
  /\ waits[3].why = "backoff" /\ waits[3].ms >= 8000

\* the time since waitForReport started its clock, at the end of the step
ElapsedAfter == now' - Get(startTime)

ReportTimeouts == { Some(ReportTimedOut(status)) : status \in ReportStatusResponses }

\* ------------------------------------------------------------------------
\* C36: In the poll loop the completion check comes before the timeout
\* check.  A poll answered "Job Completed" takes the run on to the results
\* fetch with no error, however long ago the clock was started; the
\* timed-out error is raised only by a step in which a poll was answered
\* with a non-terminal status, more than REPORT_TIMEOUT_MS after the start.
\* ------------------------------------------------------------------------
C36_CompletionBeforeTimeout ==
  [][/\ (polled' # polled /\ polled'[Len(polled')].async_status = "Job Completed" =>
           /\ rpc' = "results" /\ runError' = None
           /\ url' = Some(1))
     /\ (runError' # runError /\ runError' \in ReportTimeouts =>
           /\ rpc = "poll" /\ polled' # polled
           /\ NonTerminal(polled'[Len(polled')])
           /\ runError' = Some(ReportTimedOut(polled'[Len(polled')]))
           /\ ElapsedAfter > REPORT_TIMEOUT_MS)]_vars

\* the second poll was rate-limited once and then answered "Job Completed",
\* 305 s after the start: the run is at its first results page
C36_Witness ==
  /\ rpc = "results" /\ pages = << >> /\ runError = None
  /\ Len(polled) = 2 /\ polled[2].async_status = "Job Completed"
  /\ now - Get(startTime) > REPORT_TIMEOUT_MS

\* a response whose body is not JSON, with a status below 500
UnparseableReply(e) ==
  ~e.threw /\ e.response.body.parse = "fail" /\ e.response.status < 500

\* ------------------------------------------------------------------------
\* C37: A response whose body cannot be parsed and whose HTTP status is
\* below 500, a success status included, ends the call on that attempt: it
\* is the last request, no wait follows it, nothing is returned, and the
\* call fails with a FacebookApiError whose code is the HTTP status and
\* which is not the retries-exhausted error.
\* ------------------------------------------------------------------------
C37_UnparseableBodyIsFatal ==
  \A i \in 1..Len(log) :
    UnparseableReply(log[i]) =>
      /\ i = Len(log) /\ requests = i
      /\ Len(waits) = i - 1
      /\ pc = "thrown" /\ returned = None
      /\ thrown # None
      /\ Get(thrown).name = "FacebookApiError"
      /\ Get(thrown).code = Some(log[i].response.status)
      /\ Get(thrown).message =
            "HTTP " \o ToString(log[i].response.status) \o ": non-JSON response"
      /\ ~Exhausted

\* after one retried failure, a 200 response whose body is not JSON
C37_Witness ==
  /\ Len(log) = 2 /\ pc = "thrown"
  /\ UnparseableReply(log[2]) /\ log[2].response.status = 200
  /\ Get(thrown).code = Some(200)

\* the job identifier of the body the POST was answered with
CreatedId == Get(Get(created).report_run_id)

\* the step issued requests of the kind, for one URL naming the job
AskedOfJob(kind, edge) ==
  sent'[kind] > sent[kind] =>
    /\ created # None /\ ~CreatedWithoutId
    /\ Len(asked') = Len(asked) + 1
    /\ asked'[Len(asked')].edge = edge
    /\ asked'[Len(asked')].node = CreatedId

\* ------------------------------------------------------------------------
\* C38: Job submission is retried under the executor policy: a run issues
\* between 1 and MAX_RETRIES POST requests for its one submit call, and none
\* after a POST was answered with a body.  Every poll and every results
\* request of the run goes to a URL that names the job identifier of that
\* body.
\* ------------------------------------------------------------------------
C38_OneJobPerRun ==
  /\ [](/\ sent.submit \in 0..MAX_RETRIES
        /\ (rpc # "create" => sent.submit >= 1)
        /\ (asked # << >> => created # None /\ ~CreatedWithoutId)
        /\ \A i \in 1..Len(asked) : asked[i].node = CreatedId)
  /\ [][/\ (created # None => created' = created /\ sent'.submit = sent.submit)
        /\ AskedOfJob("poll", "status")
        /\ AskedOfJob("results", "insights")]_vars

\* the POST was rate limited once and then answered with job 120331; two
\* polls and two results pages were asked of that job
C38_Witness ==
  /\ sent.submit = 2 /\ created = Some([report_run_id |-> Some("120331")])
  /\ Len(polled) = 2 /\ Len(pages) = 2 /\ Len(asked) = 4
  /\ asked[2] = statusUrl("120331")
  /\ asked[4].node = "120331" /\ asked[4].page = 2

\* ------------------------------------------------------------------------
\* C39: In every output of fetchAdData, metadata.total_records is the
\* length of data and the number of rows received over all results pages,
\* and record i is the normalization of the i-th row received, in page
\* order and item order, with the status the record carries: no row is
\* dropped, merged, deduplicated or reordered.
\* ------------------------------------------------------------------------
C39_OneRecordPerRow ==
  output # None =>
    LET rows == Concatenation(pages)
        out == Get(output)
    IN  /\ out.metadata.total_records = Len(out.data)
        /\ Len(out.data) = Len(rows)
        /\ \A i \in 1..Len(rows) :
             out.data[i] = normalizeRow(rows[i], out.data[i].status)

\* fetchAdData returned three records for the rows of two pages: two hours
\* of ad 1, the second one received with a row of ad 2
C39_Witness ==
  /\ rpc = "enrich" /\ output # None
  /\ Len(pages) = 2 /\ Len(Get(output).data) = 3
  /\ Get(output).metadata.total_records = 3
  /\ Get(output).data[1].ad_id = Get(output).data[2].ad_id
  /\ Get(output).data[1] # Get(output).data[2]

====
